---------------------------- MODULE Spec2Model ----------------------------
(***************************************************************************)
(* A model of the step-4 interpreter of impls/rust-dotshix: the value      *)
(* model (reader.rs, MalValue), the environment chain (env.rs, Bindings    *)
(* and Env), the special forms and primitives (core.rs) and the evaluator  *)
(* and driver loop (step4_if_fn_do.rs).                                    *)
(*                                                                         *)
(* The interpreter is a recursive big-step evaluator, so eval and the      *)
(* special forms are RECURSIVE operators that thread the evaluation state  *)
(* st = [scopes, log] the way the Rust code threads its Rc<RefCell<..>>    *)
(* handles: scopes is the heap of Bindings objects (a handle is an index   *)
(* into it) and log is a history of what the evaluator did, in order.      *)
(* One action of the model is one iteration of the loop of main.           *)
(***************************************************************************)
EXTENDS Integers, Sequences, FiniteSets, TLC

VARIABLES scopes,   \* the heap of Bindings objects; scopes[1] is repl_env
          prev,     \* scopes as they were when rep(line) started
          log,      \* history: what rep(line) did, in order
          out,      \* what rep(line) returned to main
          input,    \* the line main handed to rep, as read() parsed it
          running,  \* main is still inside its loop
          nread,    \* number of lines read so far
          text      \* a string on its way through the printer and the reader

vars == <<scopes, prev, log, out, input, running, nread, text>>

(***************************************************************************)
(* Bounds of the model.                                                    *)
(***************************************************************************)
MaxLines == 2

\* The longest string sent through the printer and the reader, in characters
MaxStrLen == 3

(***************************************************************************)
(* MalValue (reader.rs:13-29) and Function (core.rs:176-181).  A value is  *)
(* a record tagged by its variant in field t.                              *)
(***************************************************************************)
String(s) == [t |-> "String", s |-> s]
Symbol(s) == [t |-> "Symbol", s |-> s]
Number(n) == [t |-> "Number", n |-> n]
Bool(b)   == [t |-> "Bool", b |-> b]
Nil       == [t |-> "Nil"]
Round(l)  == [t |-> "Round", l |-> l]
Square(l) == [t |-> "Square", l |-> l]
Curly(l)  == [t |-> "Curly", l |-> l]
Mal(l)    == [t |-> "Mal", l |-> l]
EOI       == [t |-> "EOI"]

Builtin(f)     == [t |-> "Builtin", f |-> f]
SpecialForm(f) == [t |-> "SpecialForm", f |-> f]
\* rest_param is an Option<String>: <<>> is None, <<s>> is Some(s).
\* env is the handle of the scope fn* was evaluated in.
UserDefined(params, rest_param, body, env) ==
    [t |-> "UserDefined", params |-> params, rest_param |-> rest_param,
     body |-> body, env |-> env]

IsList(v) == v.t \in {"Round", "Square", "Curly", "Mal"}

(***************************************************************************)
(* Result<MalValue, String>.  An error carries the text the code formats.  *)
(***************************************************************************)
Ok(v, st)    == [ok |-> TRUE, val |-> v, st |-> st]
Err(msg, st) == [ok |-> FALSE, val |-> [t |-> "Err", msg |-> msg], st |-> st]

(***************************************************************************)
(* The history.  Every event is a record with a field e naming its kind.   *)
(***************************************************************************)
Log(st, ev) == [st EXCEPT !.log = Append(@, ev)]

(***************************************************************************)
(* Bindings and Env (env.rs:78-134).  An Env owns exactly one Bindings     *)
(* handle, so one index stands for both.  parent is an Option: <<>> or     *)
(* <<handle>>.                                                             *)
(***************************************************************************)
Bindings_new(parent) == [current_level |-> <<>>, parent |-> parent]

\* Faulty variant of Bindings_set: the write goes to the nearest scope that
\* already holds the key (assignment instead of definition).
RECURSIVE Bindings_set_holder(_, _, _, _)
Bindings_set_holder(sc, h, key, value) ==
    IF key \in DOMAIN sc[h].current_level \/ sc[h].parent = <<>>
    THEN [sc EXCEPT ![h].current_level = (key :> value) @@ @]
    ELSE Bindings_set_holder(sc, sc[h].parent[1], key, value)

Bindings_set(sc, h, key, value) ==
    [sc EXCEPT ![h].current_level = (key :> value) @@ @]

\* Faulty variant of Bindings_get: the parent chain is asked first, so the
\* outermost binding wins.
RECURSIVE Bindings_get_outer(_, _, _)
Bindings_get_outer(sc, h, key) ==
    LET up == IF sc[h].parent # <<>>
              THEN Bindings_get_outer(sc, sc[h].parent[1], key)
              ELSE <<>>
    IN  IF up # <<>> THEN up
        ELSE IF key \in DOMAIN sc[h].current_level
             THEN <<sc[h].current_level[key]>>
             ELSE <<>>

RECURSIVE Bindings_get(_, _, _)
Bindings_get(sc, h, key) ==
    IF key \in DOMAIN sc[h].current_level
    THEN <<sc[h].current_level[key]>>
    ELSE IF sc[h].parent # <<>>
         THEN Bindings_get(sc, sc[h].parent[1], key)
         ELSE <<>>

\* Faulty variant of Env_new: the new Bindings gets no parent.
Env_new_orphan(parent, st) ==
    LET h == Len(st.scopes) + 1
    IN  Log([st EXCEPT !.scopes = Append(@, Bindings_new(<<>>))],
            [e |-> "new", id |-> h, parent |-> <<>>])

\* Env::new: allocates a fresh Bindings; the new handle is Len(scopes).
Env_new(parent, st) ==
    LET h == Len(st.scopes) + 1
    IN  Log([st EXCEPT !.scopes = Append(@, Bindings_new(parent))],
            [e |-> "new", id |-> h, parent |-> parent])

Env_set(env, key, value, st) ==
    Log([st EXCEPT !.scopes = Bindings_set(@, env, key, value)],
        [e |-> "set", env |-> env, key |-> key, val |-> value])

Env_get(env, key, st) == Bindings_get(st.scopes, env, key)


(***************************************************************************)
(* Structural equality: impl PartialEq for MalValue (reader.rs:31-55) and  *)
(* impl PartialEq for Function (env.rs:56-76).  Vec == Vec compares the    *)
(* lengths and then the elements pairwise.                                  *)
(***************************************************************************)
IsFunction(v) == v.t \in {"Builtin", "SpecialForm", "UserDefined"}

RECURSIVE MalValue_eq(_, _), Function_eq(_, _)

\* Vec<MalValue> == Vec<MalValue>
Vec_eq(v1, v2) ==
    /\ Len(v1) = Len(v2)
    /\ \A i \in 1..Len(v1) : MalValue_eq(v1[i], v2[i])

Function_eq(f1, f2) ==
    CASE f1.t = "Builtin" /\ f2.t = "Builtin" -> f1.f = f2.f
      [] f1.t = "SpecialForm" /\ f2.t = "SpecialForm" -> f1.f = f2.f
      [] f1.t = "UserDefined" /\ f2.t = "UserDefined" ->
             f1.params = f2.params /\ Vec_eq(f1.body, f2.body)
      [] OTHER -> FALSE

\* Faulty variant of MalValue_eq: a round and a square sequence are never
\* equal.
MalValue_eq_strict(a, b) ==
    CASE a.t = "String" /\ b.t = "String" -> a.s = b.s
      [] a.t = "Symbol" /\ b.t = "Symbol" -> a.s = b.s
      [] a.t = "Number" /\ b.t = "Number" -> a.n = b.n
      [] a.t = "Bool" /\ b.t = "Bool" -> a.b = b.b
      [] a.t = "Nil" /\ b.t = "Nil" -> TRUE
      [] a.t = "Round" /\ b.t = "Round" -> Vec_eq(a.l, b.l)
      [] a.t = "Square" /\ b.t = "Square" -> Vec_eq(a.l, b.l)
      [] a.t = "Curly" /\ b.t = "Curly" -> Vec_eq(a.l, b.l)
      [] IsFunction(a) /\ IsFunction(b) -> Function_eq(a, b)
      [] a.t = "EOI" /\ b.t = "EOI" -> TRUE
      [] OTHER -> FALSE

\* Faulty variant of MalValue_eq: a curly sequence is interchangeable with a
\* round and a square one.
MalValue_eq_any(a, b) ==
    CASE a.t = "String" /\ b.t = "String" -> a.s = b.s
      [] a.t = "Symbol" /\ b.t = "Symbol" -> a.s = b.s
      [] a.t = "Number" /\ b.t = "Number" -> a.n = b.n
      [] a.t = "Bool" /\ b.t = "Bool" -> a.b = b.b
      [] a.t = "Nil" /\ b.t = "Nil" -> TRUE
      [] /\ a.t \in {"Round", "Square", "Curly"}
         /\ b.t \in {"Round", "Square", "Curly"} -> Vec_eq(a.l, b.l)
      [] IsFunction(a) /\ IsFunction(b) -> Function_eq(a, b)
      [] a.t = "EOI" /\ b.t = "EOI" -> TRUE
      [] OTHER -> FALSE

MalValue_eq(a, b) ==
    CASE a.t = "String" /\ b.t = "String" -> a.s = b.s
      [] a.t = "Symbol" /\ b.t = "Symbol" -> a.s = b.s
      [] a.t = "Number" /\ b.t = "Number" -> a.n = b.n
      [] a.t = "Bool" /\ b.t = "Bool" -> a.b = b.b
      [] a.t = "Nil" /\ b.t = "Nil" -> TRUE
      [] a.t \in {"Round", "Square"} /\ b.t \in {"Round", "Square"} ->
             Vec_eq(a.l, b.l)
      [] a.t = "Curly" /\ b.t = "Curly" -> Vec_eq(a.l, b.l)
      [] IsFunction(a) /\ IsFunction(b) -> Function_eq(a, b)
      [] a.t = "EOI" /\ b.t = "EOI" -> TRUE
      [] OTHER -> FALSE

(***************************************************************************)
(* The primitives (core.rs:14-50, 236-302).  A primitive takes the         *)
(* evaluated arguments only and returns Result<MalValue>, here [ok, val].  *)
(***************************************************************************)
POk(v)    == [ok |-> TRUE, val |-> v]
PErr(msg) == [ok |-> FALSE, val |-> [t |-> "Err", msg |-> msg]]

\* Faulty variant of validate_and_extract: the types of the first two
\* arguments are checked before the number of arguments.
validate_types_first(args, func_name) ==
    IF Len(args) >= 2 /\ ~(args[1].t = "Number" /\ args[2].t = "Number")
    THEN PErr("Expected number arguments")
    ELSE IF Len(args) # 2
         THEN PErr("Expected exactly two arguments for " \o func_name \o " function")
         ELSE [ok |-> TRUE, nums |-> <<args[1].n, args[2].n>>]

\* Ok((a, b)) is returned as the two-element sequence <<a, b>> in field nums.
validate_and_extract(args, func_name) ==
    IF Len(args) # 2
    THEN PErr("Expected exactly two arguments for " \o func_name \o " function")
    ELSE IF args[1].t = "Number" /\ args[2].t = "Number"
         THEN [ok |-> TRUE, nums |-> <<args[1].n, args[2].n>>]
         ELSE PErr("Expected number arguments")

add(args) ==
    LET r == validate_and_extract(args, "add")
    IN  IF r.ok THEN POk(Number(r.nums[1] + r.nums[2])) ELSE r

sub(args) ==
    LET r == validate_and_extract(args, "subtract")
    IN  IF r.ok THEN POk(Number(r.nums[1] - r.nums[2])) ELSE r

mult(args) ==
    LET r == validate_and_extract(args, "multiply")
    IN  IF r.ok THEN POk(Number(r.nums[1] * r.nums[2])) ELSE r

\* i64 division truncates toward zero.
TruncDiv(a, b) ==
    LET abs(x) == IF x < 0 THEN -x ELSE x
        q == abs(a) \div abs(b)
    IN  IF (a < 0) # (b < 0) THEN -q ELSE q

divide(args) ==
    LET r == validate_and_extract(args, "divide")
    IN  IF r.ok
        THEN IF r.nums[2] # 0
             THEN POk(Number(TruncDiv(r.nums[1], r.nums[2])))
             ELSE PErr("Division by 0")
        ELSE r

list(args) == POk(Round(args))

list_question(args) ==
    IF Len(args) # 1
    THEN PErr("list? requires at least one argument")
    ELSE POk(Bool(args[1].t = "Round"))

empty_question(args) ==
    IF Len(args) # 1
    THEN PErr("empty? requires exactly one argument")
    ELSE CASE args[1].t \in {"Round", "Square"} -> POk(Bool(args[1].l = <<>>))
           [] args[1].t = "String" -> POk(Bool(args[1].s = ""))
           [] OTHER -> POk(Bool(FALSE))

count_any_list(args) ==
    IF Len(args) # 1
    THEN PErr("Count requires exactly one argument")
    ELSE CASE args[1].t \in {"Round", "Square", "Curly"} ->
                  POk(Number(Len(args[1].l)))
           [] args[1].t = "String" -> POk(Number(Len(args[1].s)))
           [] args[1].t = "Nil" -> POk(Number(0))
           [] OTHER -> POk(Nil)

count(args) ==
    IF Len(args) # 1
    THEN PErr("Count requires exactly one argument")
    ELSE CASE args[1].t \in {"Round", "Square"} -> POk(Number(Len(args[1].l)))
           [] args[1].t = "String" -> POk(Number(Len(args[1].s)))
           [] args[1].t = "Nil" -> POk(Number(0))
           [] OTHER -> POk(Nil)

equals(args) ==
    IF Len(args) # 2
    THEN PErr("= requires exactly two argument")
    ELSE POk(Bool(MalValue_eq(args[1], args[2])))

comparison_operator(op, args) ==
    IF Len(args) # 2
    THEN PErr(op \o " requires exactly two arguments")
    ELSE IF args[1].t = "Number" /\ args[2].t = "Number"
         THEN LET a == args[1].n
                  b == args[2].n
              IN  CASE op = "<"  -> POk(Bool(a < b))
                    [] op = "<=" -> POk(Bool(a <= b))
                    [] op = ">"  -> POk(Bool(a > b))
                    [] op = ">=" -> POk(Bool(a >= b))
                    [] OTHER -> PErr("Unsupported operator: " \o op)
         ELSE PErr("Arguments must be numbers")

\* A Function::Builtin holds a fn pointer; f names the function it points to.
call_builtin(f, args) ==
    CASE f = "add" -> add(args)
      [] f = "sub" -> sub(args)
      [] f = "mult" -> mult(args)
      [] f = "divide" -> divide(args)
      [] f = "list" -> list(args)
      [] f = "list_question" -> list_question(args)
      [] f = "empty_question" -> empty_question(args)
      [] f = "count" -> count(args)
      [] f = "equals" -> equals(args)
      [] f = "less_than" -> comparison_operator("<", args)
      [] f = "less_than_or_equal" -> comparison_operator("<=", args)
      [] f = "greater_than" -> comparison_operator(">", args)
      [] f = "greater_than_or_equal" -> comparison_operator(">=", args)

(***************************************************************************)
(* The evaluator (step4_if_fn_do.rs:25-150) and the special forms          *)
(* (core.rs:52-234) call each other, so they are declared together.        *)
(* Each takes the evaluation state st and returns [ok, val, st].           *)
(***************************************************************************)
RECURSIVE eval(_, _, _), eval_ast(_, _, _), eval_each(_, _, _),
          def_bang(_, _, _), do_func(_, _, _), do_loop(_, _, _, _),
          if_special_form(_, _, _), let_star(_, _, _), let_loop(_, _, _),
          call_special(_, _, _, _), apply_closure(_, _, _, _),
          eval_body(_, _, _, _)

\* Faulty variant of eval_each: every element is evaluated, and the first
\* error is returned afterwards.
RECURSIVE eval_each_all(_, _, _)
eval_each_all(items, env, st) ==
    IF items = <<>>
    THEN [ok |-> TRUE, val |-> Nil, vals |-> <<>>, st |-> st]
    ELSE LET h == eval(Head(items), env, st)
             r == eval_each_all(Tail(items), env, h.st)
         IN  IF ~h.ok
             THEN [ok |-> FALSE, val |-> h.val, vals |-> <<>>, st |-> r.st]
             ELSE IF ~r.ok
                  THEN r
                  ELSE [r EXCEPT !.vals = <<h.val>> \o @]

\* items.iter().map(|x| eval(x, env.clone())).collect::<Result<Vec<_>>>():
\* the elements are evaluated in order and the first Err ends the iteration.
\* The collected vector is field vals.
eval_each(items, env, st) ==
    IF items = <<>>
    THEN [ok |-> TRUE, val |-> Nil, vals |-> <<>>, st |-> st]
    ELSE LET h == eval(Head(items), env, st)
         IN  IF ~h.ok
             THEN [ok |-> FALSE, val |-> h.val, vals |-> <<>>, st |-> h.st]
             ELSE LET r == eval_each(Tail(items), env, h.st)
                  IN  IF ~r.ok
                      THEN r
                      ELSE [r EXCEPT !.vals = <<h.val>> \o @]

\* Faulty variant of def_bang: the binding is made in the root scope.
\* Faulty variant of def_bang: when the value expression fails the name is
\* bound to nil.
def_bang_bind_on_failure(args, env, st) ==
    IF Len(args) # 2
    THEN Err("def! requires exactly two arguments", st)
    ELSE IF args[1].t # "Symbol"
    THEN Err("def! first argument must be a symbol", st)
    ELSE LET value == eval(args[2], env, st)
         IN  IF ~value.ok
             THEN [value EXCEPT !.st = Env_set(env, args[1].s, Nil, value.st)]
             ELSE Ok(value.val, Env_set(env, args[1].s, value.val, value.st))

\* Faulty variant of def_bang: the name is bound in the parent of the
\* current scope when there is one.
def_bang_parent(args, env, st) ==
    IF Len(args) # 2
    THEN Err("def! requires exactly two arguments", st)
    ELSE IF args[1].t # "Symbol"
    THEN Err("def! first argument must be a symbol", st)
    ELSE LET value == eval(args[2], env, st)
             target == IF value.st.scopes[env].parent = <<>> THEN env
                       ELSE value.st.scopes[env].parent[1]
         IN  IF ~value.ok
             THEN value
             ELSE Ok(value.val, Env_set(target, args[1].s, value.val, value.st))

def_bang_root(args, env, st) ==
    IF Len(args) # 2
    THEN Err("def! requires exactly two arguments", st)
    ELSE IF args[1].t # "Symbol"
    THEN Err("def! first argument must be a symbol", st)
    ELSE LET value == eval(args[2], env, st)
         IN  IF ~value.ok
             THEN value
             ELSE Ok(value.val, Env_set(1, args[1].s, value.val, value.st))

def_bang(args, env, st) ==
    IF Len(args) # 2
    THEN Err("def! requires exactly two arguments", st)
    ELSE IF args[1].t # "Symbol"
    THEN Err("def! first argument must be a symbol", st)
    ELSE LET value == eval(args[2], env, st)
         IN  IF ~value.ok
             THEN value
             ELSE Ok(value.val, Env_set(env, args[1].s, value.val, value.st))

\* Faulty variant of do_loop: a failing expression is skipped.
RECURSIVE do_loop_continue(_, _, _, _)
do_loop_continue(args, env, res, st) ==
    IF args = <<>>
    THEN Ok(res, st)
    ELSE LET r == eval(Head(args), env, st)
         IN  IF ~r.ok
             THEN do_loop_continue(Tail(args), env, res, r.st)
             ELSE do_loop_continue(Tail(args), env, r.val, r.st)

\* for expr in args { res = eval(expr, env)?; }  Ok(res)
do_loop(args, env, res, st) ==
    IF args = <<>>
    THEN Ok(res, st)
    ELSE LET r == eval(Head(args), env, st)
         IN  IF ~r.ok THEN r ELSE do_loop(Tail(args), env, r.val, r.st)

do_func(args, env, st) == do_loop(args, env, Nil, st)

\* Faulty variant of is_truthy: the number 0, the empty string and the empty
\* list count as false too.
is_truthy_empty_false(condition_res) ==
    CASE condition_res.t = "Nil" -> FALSE
      [] condition_res.t = "Bool" /\ condition_res.b = FALSE -> FALSE
      [] condition_res.t = "Number" /\ condition_res.n = 0 -> FALSE
      [] condition_res.t = "String" /\ condition_res.s = "" -> FALSE
      [] condition_res.t \in {"Round", "Square"} /\ condition_res.l = <<>> -> FALSE
      [] OTHER -> TRUE

is_truthy(condition_res) ==
    CASE condition_res.t = "Nil" -> FALSE
      [] condition_res.t = "Bool" /\ condition_res.b = FALSE -> FALSE
      [] OTHER -> TRUE

\* Faulty variant of if_special_form: both branches are evaluated before one
\* of the two values is chosen.
if_special_form_eager(args, env, st) ==
    IF Len(args) < 2 \/ Len(args) > 3
    THEN Err("if requires two or three arguments", st)
    ELSE LET condition_res == eval(args[1], env, st)
             then_res == eval(args[2], env, condition_res.st)
             else_res == IF ~then_res.ok \/ Len(args) < 3
                         THEN Ok(Nil, then_res.st)
                         ELSE eval(args[3], env, then_res.st)
         IN  IF ~condition_res.ok THEN condition_res
             ELSE IF ~then_res.ok THEN then_res
             ELSE IF ~else_res.ok THEN else_res
             ELSE IF is_truthy(condition_res.val)
                  THEN Ok(then_res.val, else_res.st)
                  ELSE Ok(else_res.val, else_res.st)

if_special_form(args, env, st) ==
    IF Len(args) < 2 \/ Len(args) > 3
    THEN Err("if requires two or three arguments", st)
    ELSE LET condition_res == eval(args[1], env, st)
         IN  IF ~condition_res.ok
             THEN condition_res
             ELSE IF is_truthy(condition_res.val)
                  THEN eval(args[2], env, condition_res.st)
                  ELSE IF Len(args) = 3
                       THEN eval(args[3], env, condition_res.st)
                       ELSE Ok(Nil, condition_res.st)

IsAmp(p) == p.t = "Symbol" /\ p.s = "&"

\* param_list.iter().map(|p| match p { Symbol(s) => Ok(s), _ => Err }).collect()
collect_params(items) ==
    IF \A i \in 1..Len(items) : items[i].t = "Symbol"
    THEN [ok |-> TRUE, names |-> [i \in 1..Len(items) |-> items[i].s]]
    ELSE [ok |-> FALSE, names |-> <<>>]

\* Faulty variant of fn_star_params: what follows the symbol after & is
\* ignored instead of rejected.
fn_star_params_loose(args) ==
    LET bad(msg) == [ok |-> FALSE, msg |-> msg, params |-> <<>>, rest_param |-> <<>>]
        good(fixed, rest) == [ok |-> TRUE, msg |-> "", params |-> fixed,
                              rest_param |-> rest]
    IN
    IF Len(args) # 2
    THEN bad("fn* requires exactly two arguments")
    ELSE IF args[1].t \notin {"Round", "Square"}
    THEN bad("fn* first argument must be a vector that defines the function's parameters")
    ELSE
      LET param_list == args[1].l
          n == Len(param_list)
          amps == {i \in 1..n : IsAmp(param_list[i])}
          pos == CHOOSE i \in amps : \A j \in amps : i <= j
      IN  IF amps # {}
          THEN IF pos >= n
               THEN bad("Expected symbol after &")
               ELSE IF param_list[pos + 1].t # "Symbol"
               THEN bad("Expected symbol after &")
               ELSE LET fixed == collect_params(SubSeq(param_list, 1, pos - 1))
                    IN  IF ~fixed.ok
                        THEN bad("fn* Parameters must be Symbols")
                        ELSE good(fixed.names, <<param_list[pos + 1].s>>)
          ELSE LET fixed == collect_params(param_list)
               IN  IF ~fixed.ok
                   THEN bad("fn* Parameters must be Symbols")
                   ELSE good(fixed.names, <<>>)

\* The checks of fn* on its arguments and the split of the parameter list
\* into fixed parameters and rest parameter (core.rs:113-172).
fn_star_params(args) ==
    LET bad(msg) == [ok |-> FALSE, msg |-> msg, params |-> <<>>, rest_param |-> <<>>]
        good(fixed, rest) == [ok |-> TRUE, msg |-> "", params |-> fixed,
                              rest_param |-> rest]
    IN
    IF Len(args) # 2
    THEN bad("fn* requires exactly two arguments")
    ELSE IF args[1].t \notin {"Round", "Square"}
    THEN bad("fn* first argument must be a vector that defines the function's parameters")
    ELSE
      LET param_list == args[1].l
          n == Len(param_list)
          amps == {i \in 1..n : IsAmp(param_list[i])}
          \* amp_pos, counted from 1: Rust's pos is pos - 1
          pos == CHOOSE i \in amps : \A j \in amps : i <= j
      IN  IF amps # {}
          THEN IF pos >= n
               THEN bad("Expected symbol after &")
               ELSE IF pos + 1 # n
               THEN bad("Unexpected parameter after rest parameter")
               ELSE IF param_list[pos + 1].t # "Symbol"
               THEN bad("Expected symbol after &")
               ELSE LET fixed == collect_params(SubSeq(param_list, 1, pos - 1))
                    IN  IF ~fixed.ok
                        THEN bad("fn* Parameters must be Symbols")
                        ELSE good(fixed.names, <<param_list[pos + 1].s>>)
          ELSE LET fixed == collect_params(param_list)
               IN  IF ~fixed.ok
                   THEN bad("fn* Parameters must be Symbols")
                   ELSE good(fixed.names, <<>>)

\* Faulty variant of fn_star: the closure captures a copy of the bindings of
\* the defining scope instead of the scope itself.
fn_star_snapshot(args, env, st) ==
    LET p == fn_star_params(args)
    IN  IF ~p.ok
        THEN Err(p.msg, st)
        ELSE Ok(UserDefined(p.params, p.rest_param, <<args[2]>>,
                            Len(st.scopes) + 1),
                [st EXCEPT !.scopes = Append(@, st.scopes[env])])

\* fn* (core.rs:112-184): the closure holds env, the handle of the scope the
\* form is evaluated in.
fn_star(args, env, st) ==
    LET p == fn_star_params(args)
    IN  IF ~p.ok
        THEN Err(p.msg, st)
        ELSE Ok(UserDefined(p.params, p.rest_param, <<args[2]>>, env), st)

\* Faulty variant of let_loop: each expression is evaluated in the enclosing
\* scope, so a binding cannot read the bindings before it.
RECURSIVE let_loop_outer(_, _, _)
let_loop_outer(bindings_list, new_env, st) ==
    IF bindings_list = <<>>
    THEN Ok(Nil, st)
    ELSE IF Len(bindings_list) = 1
    THEN Err("Bindings must be pairs", st)
    ELSE IF bindings_list[1].t # "Symbol"
    THEN Err("Bindings must start with a symbol", st)
    ELSE LET evaluated_value == eval(bindings_list[2],
                                     st.scopes[new_env].parent[1], st)
         IN  IF ~evaluated_value.ok
             THEN evaluated_value
             ELSE let_loop_outer(SubSeq(bindings_list, 3, Len(bindings_list)),
                                 new_env,
                                 Env_set(new_env, bindings_list[1].s,
                                         evaluated_value.val, evaluated_value.st))

\* Faulty variant of let_loop: each pair is bound in the enclosing scope too.
RECURSIVE let_loop_leak(_, _, _)
let_loop_leak(bindings_list, new_env, st) ==
    IF bindings_list = <<>>
    THEN Ok(Nil, st)
    ELSE IF Len(bindings_list) = 1
    THEN Err("Bindings must be pairs", st)
    ELSE IF bindings_list[1].t # "Symbol"
    THEN Err("Bindings must start with a symbol", st)
    ELSE LET evaluated_value == eval(bindings_list[2], new_env, st)
         IN  IF ~evaluated_value.ok
             THEN evaluated_value
             ELSE let_loop_leak(SubSeq(bindings_list, 3, Len(bindings_list)),
                                new_env,
                                Env_set(st.scopes[new_env].parent[1],
                                        bindings_list[1].s, evaluated_value.val,
                                        Env_set(new_env, bindings_list[1].s,
                                                evaluated_value.val,
                                                evaluated_value.st)))

\* for pair in bindings_list.chunks(2) { ... }
let_loop(bindings_list, new_env, st) ==
    IF bindings_list = <<>>
    THEN Ok(Nil, st)
    ELSE IF Len(bindings_list) = 1
    THEN Err("Bindings must be pairs", st)
    ELSE IF bindings_list[1].t # "Symbol"
    THEN Err("Bindings must start with a symbol", st)
    ELSE LET evaluated_value == eval(bindings_list[2], new_env, st)
         IN  IF ~evaluated_value.ok
             THEN evaluated_value
             ELSE let_loop(SubSeq(bindings_list, 3, Len(bindings_list)), new_env,
                           Env_set(new_env, bindings_list[1].s,
                                   evaluated_value.val, evaluated_value.st))

let_star(args, env, st) ==
    IF Len(args) # 2
    THEN Err("let* requires exactly two arguments", st)
    ELSE IF args[1].t \notin {"Round", "Square"}
    THEN Err("let* first argument must be a list of bindings", st)
    ELSE IF Len(args[1].l) % 2 # 0
    THEN Err("Bindings must be pairs", st)
    ELSE LET st1 == Env_new(<<env>>, st)
             new_env == Len(st1.scopes)
             bound == let_loop(args[1].l, new_env, st1)
         IN  IF ~bound.ok
             THEN bound
             ELSE eval(args[2], new_env, bound.st)

\* A Function::SpecialForm holds a fn pointer; f names the function.
call_special(f, args, env, st) ==
    CASE f = "def_bang" -> def_bang(args, env, st)
      [] f = "let_star" -> let_star(args, env, st)
      [] f = "do_func" -> do_func(args, env, st)
      [] f = "fn_star" -> fn_star(args, env, st)
      [] f = "if_special_form" -> if_special_form(args, env, st)

\* Faulty variant of eval_ast: the end-of-input token evaluates to nil.
eval_ast_drop_eoi(ast, env, st) ==
    CASE ast.t = "Symbol" -> Ok(Symbol(ast.s), st)
      [] IsList(ast) ->
             LET r == eval_each(ast.l, env, st)
             IN  IF r.ok
                 THEN Ok([t |-> ast.t, l |-> r.vals], r.st)
                 ELSE [ok |-> FALSE, val |-> r.val, st |-> r.st]
      [] ast.t = "EOI" -> Ok(Nil, st)
      [] OTHER -> Ok(ast, st)

\* eval_ast (step4_if_fn_do.rs:25-47).  Both arms of the Symbol case return
\* the symbol itself.
eval_ast(ast, env, st) ==
    CASE ast.t = "Symbol" -> Ok(Symbol(ast.s), st)
      [] IsList(ast) ->
             LET r == eval_each(ast.l, env, st)
             IN  IF r.ok
                 THEN Ok([t |-> ast.t, l |-> r.vals], r.st)
                 ELSE [ok |-> FALSE, val |-> r.val, st |-> r.st]
      [] OTHER -> Ok(ast, st)

\* Env::new(Some(func_env.borrow().get_bindings())) (step4:108-111)
closure_env(func, st) == Env_new(<<func.env>>, st)

\* for (param, arg) in params.iter().zip(args.iter()) (step4:113-116)
RECURSIVE bind_fixed(_, _, _, _)
bind_fixed(params, args, new_env, st) ==
    IF params = <<>> \/ args = <<>>
    THEN st
    ELSE bind_fixed(Tail(params), Tail(args), new_env,
                    Env_set(new_env, Head(params), Head(args), st))

\* Faulty variant of rest_args: the whole argument vector.
rest_args_all(args, num_fixed_params) == args

\* args[num_fixed_params..].to_vec()
rest_args(args, num_fixed_params) == SubSeq(args, num_fixed_params + 1, Len(args))

\* Faulty variant of bind_rest: surplus arguments are not rejected.
bind_rest_lenient(func, args, new_env, st) ==
    IF func.rest_param # <<>>
    THEN Ok(Nil, Env_set(new_env, func.rest_param[1],
                         Round(rest_args(args, Len(func.params))), st))
    ELSE Ok(Nil, st)

\* Handle rest parameter (step4:118-133)
bind_rest(func, args, new_env, st) ==
    IF func.rest_param # <<>>
    THEN Ok(Nil, Env_set(new_env, func.rest_param[1],
                         Round(rest_args(args, Len(func.params))), st))
    ELSE IF Len(args) > Len(func.params)
         THEN Err("Expected " \o ToString(Len(func.params))
                  \o " arguments but got " \o ToString(Len(args)), st)
         ELSE Ok(Nil, st)

\* let mut result = Nil; for expr in body.iter() { result = eval(..)?; }
eval_body(body, new_env, result, st) ==
    IF body = <<>>
    THEN Ok(result, st)
    ELSE LET r == eval(Head(body), new_env, st)
         IN  IF ~r.ok THEN r ELSE eval_body(Tail(body), new_env, r.val, r.st)

\* Faulty variant of apply_closure: the new scope's parent is the scope of
\* the call site (dynamic scoping).
apply_closure_shared(func, args, env, st) ==
    LET st1 == Log(st, [e |-> "apply", func |-> func, args |-> args, env |-> env])
        num_fixed_params == Len(func.params)
        num_args == Len(args)
    IN  IF num_args < num_fixed_params
        THEN Err("Expected at least " \o ToString(num_fixed_params)
                 \o " arguments but got " \o ToString(num_args), st1)
        ELSE LET st2 == closure_env(func, st1)
                 new_env == func.env
                 st3 == bind_fixed(func.params, args, new_env, st2)
                 r == bind_rest(func, args, new_env, st3)
             IN  IF ~r.ok
                 THEN r
                 ELSE eval_body(func.body, new_env, Nil, r.st)

\* Faulty variant of apply_closure: the new scope is a child of the scope of
\* the call site.
apply_closure_dynamic(func, args, env, st) ==
    LET st1 == Log(st, [e |-> "apply", func |-> func, args |-> args, env |-> env])
        num_fixed_params == Len(func.params)
        num_args == Len(args)
    IN  IF num_args < num_fixed_params
        THEN Err("Expected at least " \o ToString(num_fixed_params)
                 \o " arguments but got " \o ToString(num_args), st1)
        ELSE LET st2 == Env_new(<<env>>, st1)
                 new_env == Len(st2.scopes)
                 st3 == bind_fixed(func.params, args, new_env, st2)
                 r == bind_rest(func, args, new_env, st3)
             IN  IF ~r.ok
                 THEN r
                 ELSE eval_body(func.body, new_env, Nil, r.st)

\* The UserDefined arm once the arguments are evaluated (step4:97-141).
\* env is the scope of the call site.
apply_closure(func, args, env, st) ==
    LET st1 == Log(st, [e |-> "apply", func |-> func, args |-> args, env |-> env])
        num_fixed_params == Len(func.params)
        num_args == Len(args)
    IN  IF num_args < num_fixed_params
        THEN Err("Expected at least " \o ToString(num_fixed_params)
                 \o " arguments but got " \o ToString(num_args), st1)
        ELSE LET st2 == closure_env(func, st1)
                 new_env == Len(st2.scopes)
                 st3 == bind_fixed(func.params, args, new_env, st2)
                 r == bind_rest(func, args, new_env, st3)
             IN  IF ~r.ok
                 THEN r
                 ELSE eval_body(func.body, new_env, Nil, r.st)

\* Faulty variant of dispatch: the remaining elements are evaluated before
\* the head is found not to be callable.
dispatch_args_first(func, rest, env, st) ==
    LET a == eval_each(rest, env, st)
    IN  CASE func.t = "SpecialForm" ->
                 call_special(func.f, rest, env,
                              Log(st, [e |-> "special", f |-> func.f,
                                       args |-> rest, env |-> env]))
          [] func.t = "Builtin" ->
                 IF ~a.ok
                 THEN [ok |-> FALSE, val |-> a.val, st |-> a.st]
                 ELSE LET r == call_builtin(func.f, a.vals)
                      IN  [ok |-> r.ok, val |-> r.val,
                           st |-> Log(a.st, [e |-> "builtin", f |-> func.f,
                                             args |-> a.vals])]
          [] func.t = "UserDefined" ->
                 IF ~a.ok
                 THEN [ok |-> FALSE, val |-> a.val, st |-> a.st]
                 ELSE apply_closure(func, a.vals, env, a.st)
          [] OTHER -> Err("First element is not a function", a.st)

\* What eval does with a non-empty Round list once the head is evaluated
\* (step4:69-144).
dispatch(func, rest, env, st) ==
    CASE func.t = "SpecialForm" ->
             call_special(func.f, rest, env,
                          Log(st, [e |-> "special", f |-> func.f,
                                   args |-> rest, env |-> env]))
      [] func.t = "Builtin" ->
             LET a == eval_each(rest, env, st)
             IN  IF ~a.ok
                 THEN [ok |-> FALSE, val |-> a.val, st |-> a.st]
                 ELSE LET r == call_builtin(func.f, a.vals)
                      IN  [ok |-> r.ok, val |-> r.val,
                           st |-> Log(a.st, [e |-> "builtin", f |-> func.f,
                                             args |-> a.vals])]
      [] func.t = "UserDefined" ->
             LET a == eval_each(rest, env, st)
             IN  IF ~a.ok
                 THEN [ok |-> FALSE, val |-> a.val, st |-> a.st]
                 ELSE apply_closure(func, a.vals, env, a.st)
      [] OTHER -> Err("First element is not a function", st)

\* Faulty variant of eval: a round list headed by the symbol if is the if
\* form, whatever the symbol is bound to.
eval_by_name(ast, env, st0) ==
    LET st == Log(st0, [e |-> "eval", env |-> env, ast |-> ast])
        ret(r) == [r EXCEPT !.st = Log(@, [e |-> "ret", ok |-> r.ok, val |-> r.val])]
    IN  ret(CASE ast.t = "Symbol" ->
                     LET value == Env_get(env, ast.s, st)
                     IN  IF value # <<>>
                         THEN Ok(value[1], st)
                         ELSE Err("Symbol '" \o ast.s \o "' not found in environment", st)
              [] ast.t = "Round" ->
                     IF ast.l = <<>>
                     THEN Ok(Round(ast.l), st)
                     ELSE LET func == eval(ast.l[1], env, st)
                          IN  IF ~func.ok
                              THEN func
                              ELSE dispatch(IF ast.l[1] = Symbol("if")
                                            THEN SpecialForm("if_special_form")
                                            ELSE func.val,
                                            Tail(ast.l), env, func.st)
              [] OTHER -> eval_ast(ast, env, st))

\* Faulty variant of eval: a square vector is evaluated as a call, like a
\* round list.
eval_square_calls(ast, env, st0) ==
    LET st == Log(st0, [e |-> "eval", env |-> env, ast |-> ast])
        ret(r) == [r EXCEPT !.st = Log(@, [e |-> "ret", ok |-> r.ok, val |-> r.val])]
    IN  ret(CASE ast.t = "Symbol" ->
                     LET value == Env_get(env, ast.s, st)
                     IN  IF value # <<>>
                         THEN Ok(value[1], st)
                         ELSE Err("Symbol '" \o ast.s \o "' not found in environment", st)
              [] ast.t \in {"Round", "Square"} ->
                     IF ast.l = <<>>
                     THEN Ok(ast, st)
                     ELSE LET func == eval(ast.l[1], env, st)
                          IN  IF ~func.ok
                              THEN func
                              ELSE dispatch(func.val, Tail(ast.l), env, func.st)
              [] OTHER -> eval_ast(ast, env, st))

\* eval (step4_if_fn_do.rs:49-150).  The history gets an "eval" event on
\* entry and a "ret" event with the result on return.
Ret(r) == [r EXCEPT !.st = Log(@, [e |-> "ret", ok |-> r.ok, val |-> r.val])]

eval(ast, env, st0) ==
    LET st == Log(st0, [e |-> "eval", env |-> env, ast |-> ast])
    IN  Ret(CASE ast.t = "Symbol" ->
                     LET value == Env_get(env, ast.s, st)
                     IN  IF value # <<>>
                         THEN Ok(value[1], st)
                         ELSE Err("Symbol '" \o ast.s \o "' not found in environment", st)
              [] ast.t = "Round" ->
                     IF ast.l = <<>>
                     THEN Ok(Round(ast.l), st)
                     ELSE LET func == eval(ast.l[1], env, st)
                          IN  IF ~func.ok
                              THEN func
                              ELSE dispatch(func.val, Tail(ast.l), env, func.st)
              [] OTHER -> eval_ast(ast, env, st))

(***************************************************************************)
(* create_repl_env (core.rs:341-410): the root scope, with the primitives  *)
(* registered first and the special forms after them.  The four output     *)
(* primitives are registered like the others; call_builtin has no arm for  *)
(* them, so no input of this model calls them.                             *)
(***************************************************************************)
builtins ==
    << <<"+", "add">>, <<"-", "sub">>, <<"*", "mult">>, <<"/", "divide">>,
       <<"list", "list">>, <<"list?", "list_question">>,
       <<"empty?", "empty_question">>, <<"count", "count">>,
       <<"=", "equals">>, <<"prn", "prn_fn">>, <<"pr-str", "pr_str_fn">>,
       <<"str", "str_fn">>, <<"println", "println_fn">>,
       <<"<", "less_than">>, <<"<=", "less_than_or_equal">>,
       <<">", "greater_than">>, <<">=", "greater_than_or_equal">> >>

special_forms ==
    << <<"def!", "def_bang">>, <<"let*", "let_star">>, <<"do", "do_func">>,
       <<"fn*", "fn_star">>, <<"if", "if_special_form">> >>

RECURSIVE register(_, _, _)
register(table, special, sc) ==
    IF table = <<>>
    THEN sc
    ELSE register(Tail(table), special,
                  Bindings_set(sc, 1, Head(table)[1],
                               IF special THEN SpecialForm(Head(table)[2])
                                          ELSE Builtin(Head(table)[2])))

create_repl_env ==
    register(special_forms, TRUE,
             register(builtins, FALSE, <<Bindings_new(<<>>)>>))

(***************************************************************************)
(* The reader as the driver sees it (reader.rs:82-92, 223-235).  The pest  *)
(* grammar is not part of the model: a line is given by the forms the      *)
(* grammar finds in it.  The rule mal ends with the end-of-input token,    *)
(* which build_ast turns into EOI, so the pairs inside mal are the forms   *)
(* followed by EOI; build_ast returns a lone pair as it is and wraps       *)
(* several in Mal.  parse_input returns the vector of the top-level nodes, *)
(* here the one node of rule mal.                                          *)
(***************************************************************************)
(***************************************************************************)
(* Strings in the printer and in the reader.  A string is the sequence of  *)
(* its characters, each character a string of length one.                  *)
(***************************************************************************)
\* Faulty variant of escape_char: the backslash is written as it is.
escape_char_raw_backslash(c) ==
    CASE c = "\"" -> <<"\\", "\"">>
      [] c = "\n" -> <<"\\", "n">>
      [] c = "\r" -> <<"\\", "r">>
      [] c = "\t" -> <<"\\", "t">>
      [] OTHER -> <<c>>

\* The match of printer.rs:8-15: what one character is written as
escape_char(c) ==
    CASE c = "\\" -> <<"\\", "\\">>
      [] c = "\"" -> <<"\\", "\"">>
      [] c = "\n" -> <<"\\", "n">>
      [] c = "\r" -> <<"\\", "r">>
      [] c = "\t" -> <<"\\", "t">>
      [] OTHER -> <<c>>

RECURSIVE escape_string(_)
escape_string(s) ==
    IF s = <<>> THEN <<>>
    ELSE escape_char(Head(s)) \o escape_string(Tail(s))

\* pr_str of a String with print_readably (printer.rs:23-26)
pr_str_string(s) == <<"\"">> \o escape_string(s) \o <<"\"">>

RECURSIVE unescape_string(_)
unescape_string(s) ==
    IF s = <<>> THEN <<>>
    ELSE IF Head(s) # "\\" THEN <<Head(s)>> \o unescape_string(Tail(s))
    ELSE IF Len(s) = 1 THEN <<"\\">>
    ELSE LET rest == unescape_string(SubSeq(s, 3, Len(s)))
         IN  CASE s[2] = "n" -> <<"\n">> \o rest
               [] s[2] = "r" -> <<"\r">> \o rest
               [] s[2] = "t" -> <<"\t">> \o rest
               [] s[2] = "\\" -> <<"\\">> \o rest
               [] s[2] = "\"" -> <<"\"">> \o rest
               [] OTHER -> <<"\\", s[2]>> \o rest

\* build_ast of a STRING token (reader.rs:99-106): the quotes are cut off
\* and the rest is unescaped.
build_ast_string(token) == unescape_string(SubSeq(token, 2, Len(token) - 1))

Parsed(nodes) == [ok |-> TRUE, forms |-> nodes]
ParseError    == [ok |-> FALSE, forms |-> <<>>]

mal_pairs(forms) == forms \o <<EOI>>

build_ast_mal(content) ==
    IF Len(content) = 1 THEN content[1] ELSE Mal(content)

parse_input(forms) == Parsed(<<build_ast_mal(mal_pairs(forms))>>)

(***************************************************************************)
(* The driver (step4_if_fn_do.rs:152-209).  rep returns what it hands to   *)
(* print() or formats as an error, before the rendering to text.           *)
(***************************************************************************)
eval_all(forms, env, st) == eval_each(forms, env, st)

rep(parsed, env, st) ==
    IF parsed.ok
    THEN eval_all(parsed.forms, env, st)
    ELSE [ok |-> FALSE, val |-> [t |-> "Err", msg |-> "parse error"],
          vals |-> <<>>, st |-> st]

\* (def! not (fn* (a) (if a false true))), which main evaluates on every
\* iteration (step4:186)
not_def ==
    parse_input(<< Round(<< Symbol("def!"), Symbol("not"),
                            Round(<< Symbol("fn*"), Round(<<Symbol("a")>>),
                                     Round(<< Symbol("if"), Symbol("a"),
                                              Bool(FALSE), Bool(TRUE) >>) >>) >>) >>)

\* The scopes after the rep call of step4:186
AfterNotDef == rep(not_def, 1, [scopes |-> scopes, log |-> <<>>]).st.scopes

(***************************************************************************)
(* The input lines.  Each line is what read() returns for the text in the  *)
(* comment next to it.                                                     *)
(***************************************************************************)
Read(forms)       == parse_input(forms)
Sy(name)          == Symbol(name)
Call(items)       == Round(items)
Def(name, expr)   == Round(<<Sy("def!"), Sy(name), expr>>)
Fn(params, body)  == Round(<<Sy("fn*"), Round(params), body>>)
Let(binds, body)  == Round(<<Sy("let*"), Round(binds), body>>)

Lines ==
    { Read(<<Def("x", Number(1))>>),                    \* (def! x 1)
      Read(<<Def("x", Number(2))>>),                    \* (def! x 2)
      Read(<<Def("f", Fn(<<>>, Sy("x")))>>),            \* (def! f (fn* () x))
      Read(<<Let(<<Sy("x"), Number(5)>>,                \* (let* (x 5) (f))
                   Call(<<Sy("f")>>))>>),
      Read(<<Def("g", Fn(<<Sy("x")>>,                   \* (def! g (fn* (x) (f)))
                           Call(<<Sy("f")>>)))>>),
      Read(<<Call(<<Sy("g"), Number(7)>>)>>),           \* (g 7)
      Read(<<Call(<<Sy("f")>>)>>),                      \* (f)
      \* (def! f (fn* () x)) (def! x 3) (f)
      Read(<<Def("f", Fn(<<>>, Sy("x"))), Def("x", Number(3)),
               Call(<<Sy("f")>>)>>),
      \* (let* (a 5 b a) b)
      Read(<<Let(<<Sy("a"), Number(5), Sy("b"), Sy("a")>>, Sy("b"))>>),
      \* (let* [y x x 8] (list y x))
      Read(<<Round(<<Sy("let*"),
                       Square(<<Sy("y"), Sy("x"), Sy("x"), Number(8)>>),
                       Call(<<Sy("list"), Sy("y"), Sy("x")>>)>>)>>),
      \* (let* (a (def! b 6)) (def! a 10))
      Read(<<Let(<<Sy("a"), Def("b", Number(6))>>, Def("a", Number(10)))>>),
      Read(<<Sy("a")>>),                                \* a
      Read(<<Sy("b")>>),                                \* b
      Read(<<Sy("y")>>),                                \* y
      \* (if true 1 (def! y 9))
      Read(<<Call(<<Sy("if"), Bool(TRUE), Number(1), Def("y", Number(9))>>)>>),
      \* (if true 1 zz)
      Read(<<Call(<<Sy("if"), Bool(TRUE), Number(1), Sy("zz")>>)>>),
      \* (if nil (def! y 9) zz)
      Read(<<Call(<<Sy("if"), Nil, Def("y", Number(9)), Sy("zz")>>)>>),
      \* (if x (def! b 1) (def! b 2))
      Read(<<Call(<<Sy("if"), Sy("x"), Def("b", Number(1)),
                      Def("b", Number(2))>>)>>),
      \* (if false (def! y 9))
      Read(<<Call(<<Sy("if"), Bool(FALSE), Def("y", Number(9))>>)>>),
      \* (+ (def! a 1) (def! b 2))
      Read(<<Call(<<Sy("+"), Def("a", Number(1)), Def("b", Number(2))>>)>>),
      \* (+ (def! a 3) zz (def! b 4))
      Read(<<Call(<<Sy("+"), Def("a", Number(3)), Sy("zz"),
                      Def("b", Number(4))>>)>>),
      \* (f (def! a 4) y (def! b 5))
      Read(<<Call(<<Sy("f"), Def("a", Number(4)), Sy("y"),
                      Def("b", Number(5))>>)>>),
      \* (def! k (let* (x 9) (fn* () x)))
      Read(<<Def("k", Let(<<Sy("x"), Number(9)>>, Fn(<<>>, Sy("x"))))>>),
      Read(<<Call(<<Sy("k")>>)>>),                      \* (k)
      \* (def! h (fn* (n) (if n (h false) 7))) (h true)
      Read(<<Def("h", Fn(<<Sy("n")>>,
                           Call(<<Sy("if"), Sy("n"),
                                  Call(<<Sy("h"), Bool(FALSE)>>), Number(7)>>))),
               Call(<<Sy("h"), Bool(TRUE)>>)>>),
      ParseError }                                        \* (def! x

(***************************************************************************)
(* Lines that apply a closure literal to 0..MaxArgs arguments:             *)
(* ((fn* params [names]) 10 20 ..), for each parameter list below.  The    *)
(* body is the vector of the declared names, so it evaluates to the vector *)
(* of what the application bound.                                          *)
(***************************************************************************)
MaxArgs == 3

ParamLists ==
    { <<>>,                                     \* ()
      <<Sy("a")>>,                              \* (a)
      <<Sy("a"), Sy("b")>>,                     \* (a b)
      <<Sy("&"), Sy("r")>>,                     \* (& r)
      <<Sy("a"), Sy("&"), Sy("r")>>,            \* (a & r)
      <<Sy("a"), Sy("b"), Sy("&"), Sy("r")>>,   \* (a b & r)
      <<Sy("a"), Sy("&"), Sy("a")>> }           \* (a & a)

Names(params) == SelectSeq(params, LAMBDA p : ~IsAmp(p))

Apply(params, k) ==
    Call(<<Fn(params, Square(Names(params)))>> \o [i \in 1..k |-> Number(10 * i)])

ApplyLines ==
    { Read(<<Apply(params, k)>>) : params \in ParamLists, k \in 0..MaxArgs }
    \cup
    \* ((fn* (a & r) [a r]) 10 20 30) ((fn* (a & r) [a r]) 10)
    { Read(<<Apply(<<Sy("a"), Sy("&"), Sy("r")>>, 3),
               Apply(<<Sy("a"), Sy("&"), Sy("r")>>, 1)>>) }

(***************************************************************************)
(* main (step4_if_fn_do.rs:174-209).  The state after construction is the  *)
(* one in which main enters its loop.                                      *)
(***************************************************************************)
Init ==
    /\ scopes = create_repl_env
    /\ prev = create_repl_env
    /\ log = <<>>
    /\ out = [ok |-> TRUE, vals |-> <<>>, val |-> Nil]
    /\ input = parse_input(<<>>)
    /\ running = "loop"
    /\ nread = 0
    /\ text = [pc |-> "none"]

\* One iteration with readline returning Ok(line): the definition of not is
\* evaluated first, then the line; the result is printed.
ReadLine_no_not(pool) ==
    /\ running = "loop"
    /\ nread < MaxLines
    /\ \E line \in pool :
         LET r == rep(line, 1, [scopes |-> scopes, log |-> <<>>])
         IN  /\ scopes' = r.st.scopes
             /\ prev' = scopes
             /\ log' = r.st.log
             /\ out' = [ok |-> r.ok, vals |-> r.vals, val |-> r.val]
             /\ input' = line
             /\ nread' = nread + 1
             /\ UNCHANGED <<running, text>>

ReadLine_stop_on_error(pool) ==
    /\ running = "loop"
    /\ nread < MaxLines
    /\ \E line \in pool :
         LET r == rep(line, 1, [scopes |-> AfterNotDef, log |-> <<>>])
         IN  /\ scopes' = r.st.scopes
             /\ prev' = AfterNotDef
             /\ log' = r.st.log
             /\ out' = [ok |-> r.ok, vals |-> r.vals, val |-> r.val]
             /\ input' = line
             /\ nread' = nread + 1
             /\ running' = IF r.ok THEN running ELSE "Err"
             /\ UNCHANGED text

ReadLine(pool) ==
    /\ running = "loop"
    /\ nread < MaxLines
    /\ \E line \in pool :
         LET r == rep(line, 1, [scopes |-> AfterNotDef, log |-> <<>>])
         IN  /\ scopes' = r.st.scopes
             /\ prev' = AfterNotDef
             /\ log' = r.st.log
             /\ out' = [ok |-> r.ok, vals |-> r.vals, val |-> r.val]
             /\ input' = line
             /\ nread' = nread + 1
             /\ UNCHANGED <<running, text>>

\* One iteration with readline returning Err: the definition of not is still
\* evaluated, no line is, and the loop is left.
Break(reason) ==
    /\ running = "loop"
    /\ scopes' = AfterNotDef
    /\ prev' = AfterNotDef
    /\ log' = <<>>
    /\ running' = reason
    /\ UNCHANGED <<out, input, nread, text>>

Interrupted == Break("Interrupted")
Eof         == Break("Eof")
ReadlineErr == Break("Err")

Next == ReadLine(Lines) \/ Interrupted \/ Eof \/ ReadlineErr

Spec == Init /\ [][Next]_vars

\* The same loop reading the closure applications.
NextApply == ReadLine(ApplyLines) \/ Interrupted \/ Eof \/ ReadlineErr

SpecApply == Init /\ [][NextApply]_vars

(***************************************************************************)
(* Lines that define names, at the top level, inside let* and inside do,   *)
(* with and without a failure on the way.                                  *)
(***************************************************************************)
Do(items) == Round(<<Sy("do")>> \o items)

DefLines ==
    { Read(<<Def("z", Number(5)), Sy("z")>>),           \* (def! z 5) z
      \* (let* (q 1) (do (def! z 6) z))
      Read(<<Let(<<Sy("q"), Number(1)>>,
                   Do(<<Def("z", Number(6)), Sy("z")>>))>>),
      Read(<<Sy("z")>>),                                \* z
      \* (def! 5 (def! w 1))
      Read(<<Call(<<Sy("def!"), Number(5), Def("w", Number(1))>>)>>),
      Read(<<Sy("w")>>),                                \* w
      Read(<<Def("z", Sy("zz"))>>),                     \* (def! z zz)
      \* (do (def! p 1) zz (def! q 2))
      Read(<<Do(<<Def("p", Number(1)), Sy("zz"), Def("q", Number(2))>>)>>),
      Read(<<Sy("p")>>),                                \* p
      Read(<<Sy("q")>>),                                \* q
      \* (do (def! p 3) (def! q (+ p 1)) q)
      Read(<<Do(<<Def("p", Number(3)),
                    Def("q", Call(<<Sy("+"), Sy("p"), Number(1)>>)),
                    Sy("q")>>)>>),
      Read(<<Call(<<Sy("def!"), Sy("z")>>)>>),          \* (def! z)
      Read(<<Do(<<>>)>>),                               \* (do)
      \* (def! p (do (def! q 7) zz))
      Read(<<Def("p", Do(<<Def("q", Number(7)), Sy("zz")>>))>>),
      \* (def! w 4) (w) (def! w 5)
      Read(<<Def("w", Number(4)), Call(<<Sy("w")>>), Def("w", Number(5))>>),
      \* [(def! p 9) zz (def! q 9)]
      Read(<<Square(<<Def("p", Number(9)), Sy("zz"), Def("q", Number(9))>>)>>) }

NextDef == ReadLine(DefLines) \/ Interrupted \/ Eof \/ ReadlineErr

SpecDef == Init /\ [][NextDef]_vars

(***************************************************************************)
(* Lines with if: conditions of every kind of value with and without an    *)
(* else branch, and if with too few and too many arguments.                *)
(***************************************************************************)
If(items) == Round(<<Sy("if")>> \o items)

Conditions ==
    { Nil, Bool(FALSE), Bool(TRUE), Number(0), String(""), Round(<<>>),
      Square(<<>>), Sy("zz"), Sy("+") }

IfLines ==
    { Read(<<If(<<c, Number(7), Number(8)>>)>>) : c \in Conditions }
    \cup
    { Read(<<If(<<c, Number(7)>>)>>) : c \in {Nil, Bool(FALSE), Number(0)} }
    \cup
    { Read(<<If(<<>>)>>),                               \* (if)
      Read(<<If(<<Def("y", Number(1))>>)>>),            \* (if (def! y 1))
      \* (if true 1 2 (def! y 3))
      Read(<<If(<<Bool(TRUE), Number(1), Number(2), Def("y", Number(3))>>)>>),
      Read(<<Sy("y")>>),                                \* y
      \* (if (def! y 0) y 8)
      Read(<<If(<<Def("y", Number(0)), Sy("y"), Number(8)>>)>>),
      \* (if 0 1 2) (if "" 1 2) (if () 1 2) (if nil 1) (if false 1 2)
      Read(<<If(<<Number(0), Number(1), Number(2)>>),
               If(<<String(""), Number(1), Number(2)>>),
               If(<<Round(<<>>), Number(1), Number(2)>>),
               If(<<Nil, Number(1)>>),
               If(<<Bool(FALSE), Number(1), Number(2)>>)>>) }

NextIf == ReadLine(IfLines) \/ Interrupted \/ Eof \/ ReadlineErr

SpecIf == Init /\ [][NextIf]_vars

(***************************************************************************)
(* Lines with fn*: parameter lists in round and in square brackets, well   *)
(* formed and not.                                                         *)
(***************************************************************************)
FnParamLists ==
    { <<>>,                                     \* ()
      <<Sy("a")>>,                              \* (a)
      <<Sy("a"), Sy("b")>>,                     \* (a b)
      <<Sy("a"), Sy("a")>>,                     \* (a a)
      <<Sy("&"), Sy("r")>>,                     \* (& r)
      <<Sy("a"), Sy("b"), Sy("&"), Sy("r")>>,   \* (a b & r)
      <<Sy("&")>>,                              \* (&)
      <<Sy("a"), Sy("&")>>,                     \* (a &)
      <<Sy("a"), Sy("&"), Sy("r"), Sy("s")>>,   \* (a & r s)
      <<Sy("a"), Sy("&"), Number(5)>>,          \* (a & 5)
      <<Number(1)>>,                            \* (1)
      <<Sy("a"), Number(1), Sy("&"), Sy("r")>>, \* (a 1 & r)
      <<Sy("&"), Sy("&")>>,                     \* (& &)
      <<Sy("a"), Sy("&"), Sy("&"), Sy("r")>>,   \* (a & & r)
      <<Sy("a"), String("b")>> }                \* (a "b")

FnLines ==
    { Read(<<Round(<<Sy("fn*"), Round(pl), Sy("a")>>)>>) : pl \in FnParamLists }
    \cup
    { Read(<<Round(<<Sy("fn*"), Square(pl), Sy("a")>>)>>) : pl \in FnParamLists }
    \cup
    { Read(<<Round(<<Sy("fn*"), Curly(<<Sy("a")>>), Sy("a")>>)>>),  \* (fn* {a} a)
      Read(<<Round(<<Sy("fn*"), Sy("a"), Sy("a")>>)>>),             \* (fn* a a)
      Read(<<Round(<<Sy("fn*"), Round(<<Sy("a")>>)>>)>>),           \* (fn* (a))
      \* (def! v (fn* [a & r] r))
      Read(<<Def("v", Round(<<Sy("fn*"),
                                Square(<<Sy("a"), Sy("&"), Sy("r")>>),
                                Sy("r")>>))>>),
      Read(<<Call(<<Sy("v"), Number(1), Number(2)>>)>>) }           \* (v 1 2)

NextFn == ReadLine(FnLines) \/ Interrupted \/ Eof \/ ReadlineErr

SpecFn == Init /\ [][NextFn]_vars

(***************************************************************************)
(* Lines with =: each line compares two operands in both orders.           *)
(***************************************************************************)
Eq(x, y) == Call(<<Sy("="), x, y>>)

EqOperands ==
    << Call(<<Sy("list"), Number(1), Number(2)>>),              \* (list 1 2)
       Square(<<Number(1), Number(2)>>),                        \* [1 2]
       Square(<<Number(1), Number(2), Number(3)>>),             \* [1 2 3]
       \* (list [1 2] 3)
       Call(<<Sy("list"), Square(<<Number(1), Number(2)>>), Number(3)>>),
       \* [(list 1 2) 3]
       Square(<<Call(<<Sy("list"), Number(1), Number(2)>>), Number(3)>>),
       Round(<<>>),                                             \* ()
       Square(<<>>) >>                                          \* []

\* The pairs of operands, each pair once.
Pairs(n) == {p \in (1..n) \X (1..n) : p[1] <= p[2]}

EqLines ==
    { Read(<<Eq(EqOperands[p[1]], EqOperands[p[2]]),
             Eq(EqOperands[p[2]], EqOperands[p[1]])>>) :
          p \in Pairs(Len(EqOperands)) }
    \cup
    { Read(<<Call(<<Sy("=")>>)>>),                              \* (=)
      Read(<<Call(<<Sy("="), Number(1)>>)>>),                   \* (= 1)
      Read(<<Call(<<Sy("="), Number(1), Number(1), Number(1)>>)>>),  \* (= 1 1 1)
      Read(<<Eq(Number(1), String("a")), Eq(Nil, Bool(FALSE))>>),    \* (= 1 "a") (= nil false)
      Read(<<Eq(String("a"), String("a")), Eq(Number(1), Square(<<Number(1)>>))>>) }

NextEq == ReadLine(EqLines) \/ Interrupted \/ Eof \/ ReadlineErr

SpecEq == Init /\ [][NextEq]_vars

(***************************************************************************)
(* Lines with = on curly sequences and on round and square ones with the   *)
(* same elements.                                                          *)
(***************************************************************************)
CurlyOperands ==
    << Curly(<<Number(1), Number(2)>>),                         \* {1 2}
       Curly(<<>>),                                             \* {}
       \* {(list 1 2) 3}
       Curly(<<Call(<<Sy("list"), Number(1), Number(2)>>), Number(3)>>),
       \* {[1 2] 3}
       Curly(<<Square(<<Number(1), Number(2)>>), Number(3)>>),
       Call(<<Sy("list"), Number(1), Number(2)>>),              \* (list 1 2)
       Square(<<Number(1), Number(2)>>),                        \* [1 2]
       Round(<<>>),                                             \* ()
       \* [[1 2] 3]
       Square(<<Square(<<Number(1), Number(2)>>), Number(3)>>) >>

CurlyLines ==
    { Read(<<Eq(CurlyOperands[p[1]], CurlyOperands[p[2]]),
             Eq(CurlyOperands[p[2]], CurlyOperands[p[1]])>>) :
          p \in Pairs(Len(CurlyOperands)) }

NextCurly == ReadLine(CurlyLines) \/ Interrupted \/ Eof \/ ReadlineErr

SpecCurly == Init /\ [][NextCurly]_vars

(***************************************************************************)
(* Lines with the arithmetic primitives: each of + - * / applied to each   *)
(* of the argument lists below.                                            *)
(***************************************************************************)
ArithArgs ==
    { <<>>,                                     \* (op)
      <<Number(1)>>,                            \* (op 1)
      <<Number(7), Number(2)>>,                 \* (op 7 2)
      <<Number(-7), Number(2)>>,                \* (op -7 2)
      <<Number(7), Number(-2)>>,                \* (op 7 -2)
      <<Number(7), Number(0)>>,                 \* (op 7 0)
      <<Number(0), Number(7)>>,                 \* (op 0 7)
      <<Number(1), Number(2), Number(3)>>,      \* (op 1 2 3)
      <<String("a"), Number(1)>>,               \* (op "a" 1)
      <<Number(1), Nil>>,                       \* (op 1 nil)
      <<String("a"), String("b"), Number(3)>>,  \* (op "a" "b" 3)
      <<Number(7), Number(0), Number(1)>>,      \* (op 7 0 1)
      <<Square(<<Number(1)>>), Number(0)>> }    \* (op [1] 0)

ArithLines ==
    { Read(<<Call(<<Sy(op)>> \o a)>>) : op \in {"+", "-", "*", "/"}, a \in ArithArgs }

NextArith == ReadLine(ArithLines) \/ Interrupted \/ Eof \/ ReadlineErr

SpecArith == Init /\ [][NextArith]_vars

(***************************************************************************)
(* Lines with round lists whose head is not callable, with square and      *)
(* curly sequences, and the line without forms.                            *)
(***************************************************************************)
SeqLines ==
    { Read(<<>>),                                       \* the empty line
      Read(<<Call(<<Number(1), Def("a", Number(1))>>)>>),       \* (1 (def! a 1))
      Read(<<Sy("a")>>),                                \* a
      Read(<<Call(<<String("s"), Sy("zz")>>)>>),        \* ("s" zz)
      \* ((list 1) 2)
      Read(<<Call(<<Call(<<Sy("list"), Number(1)>>), Number(2)>>)>>),
      Read(<<Call(<<Nil>>)>>),                          \* (nil)
      Read(<<Call(<<Square(<<Sy("+")>>), Number(1)>>)>>),       \* ([+] 1)
      Read(<<Call(<<Round(<<>>)>>)>>),                  \* (())
      Read(<<Call(<<Sy("zz"), Number(1)>>)>>),          \* (zz 1)
      Read(<<Square(<<Sy("+"), Number(1), Number(2)>>)>>),      \* [+ 1 2]
      Read(<<Curly(<<Sy("+"), Number(1), Number(2)>>)>>),       \* {+ 1 2}
      \* [(def! a 2) zz (def! b 3)]
      Read(<<Square(<<Def("a", Number(2)), Sy("zz"), Def("b", Number(3))>>)>>),
      Read(<<Sy("b")>>),                                \* b
      \* {(def! a 4) a}
      Read(<<Curly(<<Def("a", Number(4)), Sy("a")>>)>>),
      Read(<<Square(<<>>)>>),                           \* []
      Read(<<Curly(<<>>)>>),                            \* {}
      \* [[1 (+ 1 2)] {3}]
      Read(<<Square(<<Square(<<Number(1),
                                 Call(<<Sy("+"), Number(1), Number(2)>>)>>),
                        Curly(<<Number(3)>>)>>)>>),
      \* [if true 1]
      Read(<<Square(<<Sy("if"), Bool(TRUE), Number(1)>>)>>),
      \* {(fn* (a) a) 5}
      Read(<<Curly(<<Fn(<<Sy("a")>>, Sy("a")), Number(5)>>)>>),
      \* (def! a 7) [a (a) a]
      Read(<<Def("a", Number(7)),
               Square(<<Sy("a"), Call(<<Sy("a")>>), Sy("a")>>)>>) }

NextSeq == ReadLine(SeqLines) \/ Interrupted \/ Eof \/ ReadlineErr

SpecSeq == Init /\ [][NextSeq]_vars

(***************************************************************************)
(* Reading the history.  The operators below are the yardstick properties  *)
(* are measured with; they restate what the environment contract says and  *)
(* use none of the operators that model the code.                          *)
(***************************************************************************)
CountArgs ==
    { <<>>,                                             \* (count)
      <<Call(<<Sy("list")>>)>>,                         \* (count (list))
      <<Call(<<Sy("list"), Number(1), Number(2)>>)>>,   \* (count (list 1 2))
      <<Square(<<>>)>>,                                 \* (count [])
      <<Square(<<Number(1), Nil, String("a")>>)>>,      \* (count [1 nil "a"])
      <<Square(<<Square(<<Number(1), Number(2)>>)>>)>>, \* (count [[1 2]])
      <<String("")>>,                                   \* (count "")
      <<String("abc")>>,                                \* (count "abc")
      <<Nil>>,                                          \* (count nil)
      <<Number(5)>>,                                    \* (count 5)
      <<Bool(TRUE)>>,                                   \* (count true)
      <<Curly(<<>>)>>,                                  \* (count {})
      <<Curly(<<Number(1), Number(2)>>)>>,              \* (count {1 2})
      <<Sy("count")>>,                                  \* (count count)
      <<Sy("if")>>,                                     \* (count if)
      <<Fn(<<Sy("a")>>, Sy("a"))>>,                     \* (count (fn* (a) a))
      <<Number(5), Number(6)>>,                         \* (count 5 6)
      <<Square(<<Number(1)>>), Square(<<Number(2)>>)>>, \* (count [1] [2])
      <<Nil, Nil, Nil>> }                               \* (count nil nil nil)

CountLines == { Read(<<Call(<<Sy("count")>> \o a)>>) : a \in CountArgs }

NextCount == ReadLine(CountLines) \/ Interrupted \/ Eof \/ ReadlineErr

SpecCount == Init /\ [][NextCount]_vars

\* Lines that fail in the reader or in the evaluator, lines that succeed,
\* and lines that redefine not.
DriverLines ==
    { ParseError,                                       \* (1 2
      Read(<<>>),                                       \* the empty line
      Read(<<Sy("zz")>>),                               \* zz
      \* (do (def! q 1) zz)
      Read(<<Do(<<Def("q", Number(1)), Sy("zz")>>)>>),
      Read(<<Sy("q")>>),                                \* q
      Read(<<Def("r", Number(2))>>),                    \* (def! r 2)
      Read(<<Sy("r")>>),                                \* r
      Read(<<Call(<<Sy("+"), Number(1), String("a")>>)>>),      \* (+ 1 "a")
      Read(<<Call(<<Sy("/"), Number(1), Number(0)>>)>>),        \* (/ 1 0)
      Read(<<Call(<<Number(1), Number(2)>>)>>),         \* (1 2)
      Read(<<Call(<<Sy("+"), Number(1), Number(2)>>)>>),        \* (+ 1 2)
      Read(<<Number(1), Sy("zz"), Def("r", Number(3))>>),       \* 1 zz (def! r 3)
      Read(<<Def("not", Number(5))>>),                  \* (def! not 5)
      Read(<<Def("not", Fn(<<Sy("a")>>, Sy("a")))>>),   \* (def! not (fn* (a) a))
      Read(<<Sy("not")>>),                              \* not
      Read(<<Call(<<Sy("not"), Bool(FALSE)>>)>>),       \* (not false)
      Read(<<Call(<<Sy("not"), Number(1)>>)>>),         \* (not 1)
      \* (do (def! not 5) not)
      Read(<<Do(<<Def("not", Number(5)), Sy("not")>>)>>),
      \* (let* (not 1) not)
      Read(<<Let(<<Sy("not"), Number(1)>>, Sy("not"))>>) }

NextDriver == ReadLine(DriverLines) \/ Interrupted \/ Eof \/ ReadlineErr

SpecDriver == Init /\ [][NextDriver]_vars

\* Closures to compare: the text of each is in the comment next to it.
ClosureOperands ==
    << Fn(<<Sy("a")>>, Sy("a")),                        \* (fn* (a) a)
       Fn(<<Sy("b")>>, Sy("a")),                        \* (fn* (b) a)
       Fn(<<Sy("a")>>, Sy("b")),                        \* (fn* (a) b)
       Fn(<<Sy("a"), Sy("&"), Sy("b")>>, Sy("a")),      \* (fn* (a & b) a)
       Fn(<<Sy("a"), Sy("&"), Sy("c")>>, Sy("a")),      \* (fn* (a & c) a)
       Fn(<<Sy("&"), Sy("a")>>, Sy("a")),               \* (fn* (& a) a)
       \* (let* (a 1) (fn* (a) a))
       Let(<<Sy("a"), Number(1)>>, Fn(<<Sy("a")>>, Sy("a"))),
       Sy("+") >>                                       \* +

ClosureEqLines ==
    { Read(<<Eq(ClosureOperands[p[1]], ClosureOperands[p[2]]),
             Eq(ClosureOperands[p[2]], ClosureOperands[p[1]])>>) :
          p \in Pairs(Len(ClosureOperands)) }
    \cup
    { \* (def! mk (fn* (x) (fn* (y) x))) (= (mk 1) (mk 2))
      Read(<<Def("mk", Fn(<<Sy("x")>>, Fn(<<Sy("y")>>, Sy("x")))),
             Eq(Call(<<Sy("mk"), Number(1)>>), Call(<<Sy("mk"), Number(2)>>))>>),
      \* (= (fn* () (1 2)) (fn* () [1 2]))
      Read(<<Eq(Fn(<<>>, Round(<<Number(1), Number(2)>>)),
                Fn(<<>>, Square(<<Number(1), Number(2)>>)))>>),
      \* (= (fn* () {1 2}) (fn* () [1 2]))
      Read(<<Eq(Fn(<<>>, Curly(<<Number(1), Number(2)>>)),
                Fn(<<>>, Square(<<Number(1), Number(2)>>)))>>) }

NextClosureEq == ReadLine(ClosureEqLines) \/ Interrupted \/ Eof \/ ReadlineErr

SpecClosureEq == Init /\ [][NextClosureEq]_vars

\* The lines that define names, and def! forms that fail after their value
\* expression bound the very name, or for the number of their arguments.
DefFailLines ==
    DefLines
    \cup
    { \* (def! p (do (def! p 7) zz))
      Read(<<Def("p", Do(<<Def("p", Number(7)), Sy("zz")>>))>>),
      \* (def! z 1 2)
      Read(<<Call(<<Sy("def!"), Sy("z"), Number(1), Number(2)>>)>>),
      \* (let* (z 1) (do (def! z zz) z))
      Read(<<Let(<<Sy("z"), Number(1)>>,
                 Do(<<Def("z", Sy("zz")), Sy("z")>>))>>) }

NextDefFail == ReadLine(DefFailLines) \/ Interrupted \/ Eof \/ ReadlineErr

SpecDefFail == Init /\ [][NextDefFail]_vars

(***************************************************************************)
(* Lines that rebind the names of special forms and primitives, and lines  *)
(* that call a special form or a primitive through another name.           *)
(***************************************************************************)
DispatchLines ==
    { Read(<<Def("if", Number(5))>>),                   \* (def! if 5)
      \* (if true 1 2)
      Read(<<If(<<Bool(TRUE), Number(1), Number(2)>>)>>),
      \* (let* (+ 1) (+ 2 3))
      Read(<<Let(<<Sy("+"), Number(1)>>,
                 Call(<<Sy("+"), Number(2), Number(3)>>))>>),
      \* ((fn* (def!) (def! x 1)) 7)
      Read(<<Call(<<Fn(<<Sy("def!")>>, Def("x", Number(1))), Number(7)>>)>>),
      Read(<<Def("my-if", Sy("if"))>>),                 \* (def! my-if if)
      \* (my-if false zz 2)
      Read(<<Call(<<Sy("my-if"), Bool(FALSE), Sy("zz"), Number(2)>>)>>),
      Read(<<Call(<<Sy("my-if"), Bool(TRUE)>>)>>),      \* (my-if true)
      \* (let* (d def!) (d y 5))
      Read(<<Let(<<Sy("d"), Sy("def!")>>,
                 Call(<<Sy("d"), Sy("y"), Number(5)>>))>>),
      \* (def! + -) (+ 5 3)
      Read(<<Def("+", Sy("-")), Call(<<Sy("+"), Number(5), Number(3)>>)>>),
      \* (def! if do) (if 1 2 3)
      Read(<<Def("if", Sy("do")),
             If(<<Number(1), Number(2), Number(3)>>)>>),
      \* (let* (if (fn* (a b) [a b])) (if 1 2))
      Read(<<Let(<<Sy("if"), Fn(<<Sy("a"), Sy("b")>>,
                                Square(<<Sy("a"), Sy("b")>>))>>,
                 If(<<Number(1), Number(2)>>))>>),
      \* ((if true + -) 5 3)
      Read(<<Call(<<If(<<Bool(TRUE), Sy("+"), Sy("-")>>),
                    Number(5), Number(3)>>)>>),
      \* (def! my-if if) (def! if 5) (my-if false zz 2) (if true 1 2)
      Read(<<Def("my-if", Sy("if")), Def("if", Number(5)),
             Call(<<Sy("my-if"), Bool(FALSE), Sy("zz"), Number(2)>>),
             If(<<Bool(TRUE), Number(1), Number(2)>>)>>),
      Read(<<Call(<<Sy("+"), Number(1), Number(2)>>)>>),        \* (+ 1 2)
      Read(<<Def("def!", Number(1))>>),                 \* (def! def! 1)
      Read(<<Def("x", Number(2))>>) }                   \* (def! x 2)

NextDispatch == ReadLine(DispatchLines) \/ Interrupted \/ Eof \/ ReadlineErr

SpecDispatch == Init /\ [][NextDispatch]_vars

(***************************************************************************)
(* Lines that use and rebind not, and lines that rebind the names the      *)
(* definition of not is written with.                                      *)
(***************************************************************************)
NotLines ==
    { Read(<<Def("not", Number(5))>>),                  \* (def! not 5)
      \* (def! not 5) (def! mark 1)
      Read(<<Def("not", Number(5)), Def("mark", Number(1))>>),
      Read(<<Def("not", Fn(<<Sy("a")>>, Sy("a")))>>),   \* (def! not (fn* (a) a))
      Read(<<Sy("not")>>),                              \* not
      Read(<<Call(<<Sy("not"), Bool(FALSE)>>)>>),       \* (not false)
      Read(<<Call(<<Sy("not"), Number(1)>>)>>),         \* (not 1)
      \* (do (def! not 5) not)
      Read(<<Do(<<Def("not", Number(5)), Sy("not")>>)>>),
      \* (let* (not 1) not)
      Read(<<Let(<<Sy("not"), Number(1)>>, Sy("not"))>>),
      Read(<<Def("fn*", Number(1))>>),                  \* (def! fn* 1)
      Read(<<Def("def!", Number(1))>>),                 \* (def! def! 1)
      \* (def! not 5) (def! fn* 1)
      Read(<<Def("not", Number(5)), Def("fn*", Number(1))>>),
      \* (def! not 6) (def! def! 1)
      Read(<<Def("not", Number(6)), Def("def!", Number(1))>>),
      Read(<<Def("if", Number(5))>>),                   \* (def! if 5)
      \* (let* (def! 1 fn* 2) not)
      Read(<<Let(<<Sy("def!"), Number(1), Sy("fn*"), Number(2)>>, Sy("not"))>>),
      Read(<<Sy("zz")>>),                               \* zz
      ParseError }                                      \* (not

NextNot == ReadLine(NotLines) \/ Interrupted \/ Eof \/ ReadlineErr

SpecNot == Init /\ [][NextNot]_vars

(***************************************************************************)
(* Lines that invoke closures whose bodies bind names with def!, once,     *)
(* repeatedly and recursively, and closures made inside an invocation.     *)
(***************************************************************************)
FrameLines ==
    { \* (def! f (fn* (a) (do (def! x a) x)))
      Read(<<Def("f", Fn(<<Sy("a")>>, Do(<<Def("x", Sy("a")), Sy("x")>>)))>>),
      Read(<<Call(<<Sy("f"), Number(1)>>)>>),           \* (f 1)
      Read(<<Sy("x")>>),                                \* x
      Read(<<Call(<<Sy("f"), Number(1)>>), Sy("x")>>),  \* (f 1) x
      \* (def! x 9) ((fn* (a) (do (def! x a) (def! a 7) [x a])) 1) x
      Read(<<Def("x", Number(9)),
             Call(<<Fn(<<Sy("a")>>,
                       Do(<<Def("x", Sy("a")), Def("a", Number(7)),
                            Square(<<Sy("x"), Sy("a")>>)>>)),
                    Number(1)>>),
             Sy("x")>>),
      \* (let* (y 1 g (fn* (a) (def! y a))) [(g 2) y])
      Read(<<Let(<<Sy("y"), Number(1),
                   Sy("g"), Fn(<<Sy("a")>>, Def("y", Sy("a")))>>,
                 Square(<<Call(<<Sy("g"), Number(2)>>), Sy("y")>>))>>),
      \* (def! c ((fn* (n) (fn* (d) (do (def! n (+ n d)) n))) 10))
      Read(<<Def("c", Call(<<Fn(<<Sy("n")>>,
                                Fn(<<Sy("d")>>,
                                   Do(<<Def("n", Call(<<Sy("+"), Sy("n"),
                                                        Sy("d")>>)),
                                        Sy("n")>>))),
                             Number(10)>>))>>),
      \* [(c 1) (c 1)]
      Read(<<Square(<<Call(<<Sy("c"), Number(1)>>),
                      Call(<<Sy("c"), Number(1)>>)>>)>>),
      \* (def! cnt (fn* (n) (if n (do (def! m n) (cnt false) m) 0)))
      Read(<<Def("cnt",
                 Fn(<<Sy("n")>>,
                    If(<<Sy("n"),
                         Do(<<Def("m", Sy("n")),
                              Call(<<Sy("cnt"), Bool(FALSE)>>),
                              Sy("m")>>),
                         Number(0)>>)))>>),
      Read(<<Call(<<Sy("cnt"), Number(5)>>)>>),         \* (cnt 5)
      \* (def! h (fn* (a) (if a (def! z 1) z))) (h true) (h false)
      Read(<<Def("h", Fn(<<Sy("a")>>,
                         If(<<Sy("a"), Def("z", Number(1)), Sy("z")>>))),
             Call(<<Sy("h"), Bool(TRUE)>>),
             Call(<<Sy("h"), Bool(FALSE)>>)>>),
      \* (def! k (fn* (n) (fn* () n))) (def! k1 (k 1)) (def! k2 (k 2))
      Read(<<Def("k", Fn(<<Sy("n")>>, Fn(<<>>, Sy("n")))),
             Def("k1", Call(<<Sy("k"), Number(1)>>)),
             Def("k2", Call(<<Sy("k"), Number(2)>>))>>),
      \* [(k1) (k2) (k1)]
      Read(<<Square(<<Call(<<Sy("k1")>>), Call(<<Sy("k2")>>),
                      Call(<<Sy("k1")>>)>>)>>),
      \* ((fn* (a) (let* (b a) (def! q b))) 3) q
      Read(<<Call(<<Fn(<<Sy("a")>>,
                       Let(<<Sy("b"), Sy("a")>>, Def("q", Sy("b")))),
                    Number(3)>>),
             Sy("q")>>),
      \* ((fn* (d) (d y 5)) def!) y
      Read(<<Call(<<Fn(<<Sy("d")>>, Call(<<Sy("d"), Sy("y"), Number(5)>>)),
                    Sy("def!")>>),
             Sy("y")>>),
      \* ((fn* (a) (do (def! w a) zz)) 1)
      Read(<<Call(<<Fn(<<Sy("a")>>, Do(<<Def("w", Sy("a")), Sy("zz")>>)),
                    Number(1)>>)>>) }

NextFrame == ReadLine(FrameLines) \/ Interrupted \/ Eof \/ ReadlineErr

SpecFrame == Init /\ [][NextFrame]_vars

(***************************************************************************)
(* Strings through the printer and back through the reader.  The alphabet  *)
(* has the five characters the printer escapes, the letters the escapes    *)
(* are written with, and an ordinary character.                            *)
(***************************************************************************)
Alphabet == {"\\", "\"", "\n", "\r", "\t", "n", "r", "t", "a"}

RECURSIVE StringsOf(_)
StringsOf(len) ==
    IF len = 0 THEN {<<>>}
    ELSE StringsOf(len - 1)
         \cup {Append(s, c) : s \in {x \in StringsOf(len - 1) : Len(x) = len - 1},
                              c \in Alphabet}

InitString ==
    /\ scopes = create_repl_env
    /\ prev = create_repl_env
    /\ log = <<>>
    /\ out = [ok |-> TRUE, vals |-> <<>>, val |-> Nil]
    /\ input = parse_input(<<>>)
    /\ running = "loop"
    /\ nread = 0
    /\ \E s \in StringsOf(MaxStrLen) : text = [pc |-> "value", s |-> s]

\* The printer writes the string readably.
PrintString ==
    /\ text.pc = "value"
    /\ text' = [pc |-> "printed", s |-> text.s, printed |-> pr_str_string(text.s)]
    /\ UNCHANGED <<scopes, prev, log, out, input, running, nread>>

\* The reader builds a String from what the printer wrote.
ReadString ==
    /\ text.pc = "printed"
    /\ text' = [pc |-> "read", s |-> text.s, printed |-> text.printed,
                read |-> build_ast_string(text.printed)]
    /\ UNCHANGED <<scopes, prev, log, out, input, running, nread>>

NextString == PrintString \/ ReadString

SpecString == InitString /\ [][NextString]_vars

Events == 1..Len(log)

\* The "ret" event that closes the evaluation event i lies in: for an "eval"
\* event its own return, for any other event the return of the enclosing eval.
RECURSIVE Closing(_, _)
Closing(j, depth) ==
    IF j > Len(log) THEN 0
    ELSE IF log[j].e = "eval" THEN Closing(j + 1, depth + 1)
    ELSE IF log[j].e = "ret"
         THEN IF depth = 1 THEN j ELSE Closing(j + 1, depth - 1)
         ELSE Closing(j + 1, depth)

Match(i) == Closing(i + 1, 1)

\* The heap after the first i events: prev with every scope creation and
\* every binding of the history applied, a binding touching one name of one
\* scope and nothing else.
RECURSIVE ScopesAt(_)
ScopesAt(i) ==
    IF i = 0 THEN prev
    ELSE LET sc == ScopesAt(i - 1)
             ev == log[i]
         IN  CASE ev.e = "new" ->
                      Append(sc, [current_level |-> <<>>, parent |-> ev.parent])
               [] ev.e = "set" ->
                      [sc EXCEPT ![ev.env].current_level =
                           [k \in DOMAIN @ \cup {ev.key} |->
                               IF k = ev.key THEN ev.val ELSE @[k]]]
               [] OTHER -> sc

\* The scopes from h outward to the root, innermost first.
RECURSIVE Chain(_, _)
Chain(sc, h) ==
    IF sc[h].parent = <<>> THEN <<h>> ELSE <<h>> \o Chain(sc, sc[h].parent[1])

\* The positions in Chain(sc, h) of the scopes that hold name.
Holders(sc, h, name) ==
    {k \in 1..Len(Chain(sc, h)) : name \in DOMAIN sc[Chain(sc, h)[k]].current_level}

Nearest(sc, h, name) ==
    Chain(sc, h)[CHOOSE k \in Holders(sc, h, name) :
                    \A m \in Holders(sc, h, name) : k <= m]

\* What name resolves to from scope h: <<>> or <<value>>.
Resolve(sc, h, name) ==
    IF Holders(sc, h, name) = {} THEN <<>>
    ELSE <<sc[Nearest(sc, h, name)].current_level[name]>>

IsSet(i)  == log[i].e = "set"
IsNew(i)  == log[i].e = "new"
IsEval(i) == log[i].e = "eval"
IsRet(i)  == log[i].e = "ret"

(***************************************************************************)
(* C3.  Environment set(name, value) inserts or overwrites name in the     *)
(* innermost scope only and always succeeds: the heap the evaluation of a  *)
(* line leaves is the heap it started from with each binding applied to    *)
(* the one name of the one scope it was made in, so the bindings of every  *)
(* ancestor of that scope are what they were.                              *)
(***************************************************************************)
C3_SetInnermostOnly == scopes = ScopesAt(Len(log))

\* A binding was made in a child scope for a name that an ancestor holds with
\* another value, and the ancestor still holds its old value.
C3_Witness ==
    \E i \in Events :
        /\ IsSet(i)
        /\ scopes[log[i].env].parent # <<>>
        /\ LET up == scopes[log[i].env].parent[1]
           IN  /\ Holders(prev, up, log[i].key) # {}
               /\ Resolve(prev, up, log[i].key) # <<log[i].val>>
               /\ Resolve(scopes, up, log[i].key) = Resolve(prev, up, log[i].key)

(***************************************************************************)
(* C4.  Evaluating a symbol in a scope returns the value bound to that     *)
(* name in the nearest scope of the parent chain that holds it, and fails  *)
(* with the unbound-symbol error if and only if no scope of the chain      *)
(* holds the name.                                                         *)
(***************************************************************************)
C4_SymbolResolution ==
    \A i \in Events :
        (IsEval(i) /\ log[i].ast.t = "Symbol") =>
            LET found == Resolve(ScopesAt(i), log[i].env, log[i].ast.s)
                ret == log[i + 1]
            IN  /\ i < Len(log)
                /\ ret.e = "ret"
                /\ ret.ok <=> found # <<>>
                /\ ret.ok => ret.val = found[1]
                /\ ~ret.ok => ret.val.msg = "Symbol '" \o log[i].ast.s
                                             \o "' not found in environment"

\* A symbol was evaluated in a scope that holds it while an outer scope of the
\* chain holds it with another value, and the inner value was returned.
C4_Witness ==
    \E i \in Events :
        /\ IsEval(i) /\ log[i].ast.t = "Symbol"
        /\ LET sc == ScopesAt(i)
               hs == Holders(sc, log[i].env, log[i].ast.s)
               ch == Chain(sc, log[i].env)
           IN  /\ Cardinality(hs) >= 2
               /\ \E k \in hs : sc[ch[k]].current_level[log[i].ast.s]
                                   # Resolve(sc, log[i].env, log[i].ast.s)[1]
               /\ log[i + 1].ok
               /\ log[i + 1].val = sc[Nearest(sc, log[i].env, log[i].ast.s)]
                                       .current_level[log[i].ast.s]

(***************************************************************************)
(* Reading a closure application out of the history.  An "apply" event at  *)
(* i is followed by the creation of the invocation scope, the bindings of  *)
(* the parameters and, when the arity fits, the evaluation of the body.    *)
(***************************************************************************)
IsApply(i) == log[i].e = "apply"

HasRest(func) == func.rest_param # <<>>

\* The arity rule of closure application.
ArityFits(func, args) ==
    IF HasRest(func) THEN Len(args) >= Len(func.params)
                     ELSE Len(args) = Len(func.params)

\* Where the evaluation of the body starts when the arity fits.
BodyAt(i) ==
    i + 2 + Len(log[i].func.params) + (IF HasRest(log[i].func) THEN 1 ELSE 0)

\* name is a free variable of a body that is just the symbol name.
FreeSymbolBody(func, name) ==
    /\ func.body = <<Symbol(name)>>
    /\ \A k \in 1..Len(func.params) : func.params[k] # name
    /\ func.rest_param # <<name>>

BoundNames ==
    {"x", "y", "a", "b", "f", "g", "h", "k", "n", "r", "zz", "not"}

(***************************************************************************)
(* C1.  Lexical scoping: when a closure is applied, its body is evaluated  *)
(* in a new scope whose parent is the scope fn* captured, never the scope  *)
(* of the call site; a free variable of the body resolves to the binding   *)
(* visible from the captured scope, whatever the call site binds.          *)
(***************************************************************************)
C1_LexicalScope ==
    \A i \in Events :
        (IsApply(i) /\ Len(log[i].args) >= Len(log[i].func.params)) =>
            /\ IsNew(i + 1)
            /\ log[i + 1].parent = <<log[i].func.env>>
            /\ ArityFits(log[i].func, log[i].args) =>
                 LET j == BodyAt(i)
                 IN  /\ IsEval(j)
                     /\ log[j].env = log[i + 1].id
                     /\ log[j].ast = log[i].func.body[1]
                     /\ \A name \in BoundNames :
                          FreeSymbolBody(log[i].func, name) =>
                            LET seen == Resolve(ScopesAt(j), log[i].func.env, name)
                            IN  /\ log[j + 1].ok <=> seen # <<>>
                                /\ log[j + 1].ok => log[j + 1].val = seen[1]

\* A closure was applied from a call site whose scope binds the body's free
\* variable to another value than the captured scope does, and the body got
\* the value of the captured scope.
C1_Witness ==
    \E i \in Events : \E name \in BoundNames :
        /\ IsApply(i)
        /\ ArityFits(log[i].func, log[i].args)
        /\ FreeSymbolBody(log[i].func, name)
        /\ log[i].env # log[i].func.env
        /\ LET sc == ScopesAt(BodyAt(i))
               here == Resolve(sc, log[i].env, name)
               there == Resolve(sc, log[i].func.env, name)
           IN  /\ here # <<>> /\ there # <<>> /\ here # there
               /\ log[BodyAt(i) + 1].ok
               /\ log[BodyAt(i) + 1].val = there[1]

(***************************************************************************)
(* C2.  A closure holds its defining scope by reference, not by snapshot:  *)
(* fn* evaluated in scope S yields a closure whose scope is S itself, and  *)
(* an application of a closure of scope S whose body reads a free name n   *)
(* returns the value of the latest def! of n in S, also when that def!     *)
(* came after the closure was created.                                     *)
(***************************************************************************)
LastSet(S, name, upto) ==
    LET sets == {k \in 1..upto : IsSet(k) /\ log[k].env = S /\ log[k].key = name}
    IN  IF sets = {} THEN 0
        ELSE CHOOSE k \in sets : \A m \in sets : m <= k

C2_SharedScope ==
    /\ \A i \in Events :
         (log[i].e = "special" /\ log[i].f = "fn_star") =>
            /\ i < Len(log) /\ IsRet(i + 1)
            /\ log[i + 1].ok => /\ log[i + 1].val.t = "UserDefined"
                                /\ log[i + 1].val.env = log[i].env
    /\ \A j \in Events : \A name \in BoundNames :
         (/\ IsApply(j)
          /\ ArityFits(log[j].func, log[j].args)
          /\ FreeSymbolBody(log[j].func, name)) =>
            LET S == log[j].func.env
                last == LastSet(S, name, BodyAt(j))
                ret == log[BodyAt(j) + 1]
            IN  IF last # 0
                THEN ret.ok /\ ret.val = log[last].val
                ELSE (S \in DOMAIN prev /\ name \in DOMAIN prev[S].current_level)
                        => ret.ok /\ ret.val = prev[S].current_level[name]

\* A closure was created in S while S bound n differently or not at all, n
\* was then defined in S, and a later application returned the new value.
C2_Witness ==
    \E i \in Events : \E k \in Events : \E j \in Events : \E name \in BoundNames :
        /\ i < k /\ k < j
        /\ log[i].e = "special" /\ log[i].f = "fn_star"
        /\ IsRet(i + 1) /\ log[i + 1].ok
        /\ IsSet(k) /\ log[k].env = log[i].env /\ log[k].key = name
        /\ Resolve(ScopesAt(i), log[i].env, name) # <<log[k].val>>
        /\ IsApply(j) /\ log[j].func = log[i + 1].val
        /\ FreeSymbolBody(log[j].func, name)
        /\ LastSet(log[i].env, name, j) = k
        /\ log[BodyAt(j) + 1].ok
        /\ log[BodyAt(j) + 1].val = log[k].val

(***************************************************************************)
(* Reading special forms and calls out of the history.                     *)
(***************************************************************************)
IsSpecial(i, f) == log[i].e = "special" /\ log[i].f = f

\* The evaluations made directly by the evaluation that event i lies in,
\* after i, in order (the evaluations nested in them left out).
RECURSIVE KidsFrom(_, _)
KidsFrom(j, end) ==
    IF j >= end THEN <<>>
    ELSE IF IsEval(j) THEN <<j>> \o KidsFrom(Match(j) + 1, end)
    ELSE KidsFrom(j + 1, end)

Kids(i) == KidsFrom(i + 1, Match(i))

Truthy(v) == ~(v.t = "Nil" \/ (v.t = "Bool" /\ v = Bool(FALSE)))

\* A well-formed let* form: two arguments, the first a list of
\* symbol/expression pairs.
ProperLet(args) ==
    /\ Len(args) = 2
    /\ args[1].t \in {"Round", "Square"}
    /\ Len(args[1].l) % 2 = 0
    /\ \A k \in 1..Len(args[1].l) : k % 2 = 1 => args[1].l[k].t = "Symbol"

(***************************************************************************)
(* C5.  let* creates exactly one new child scope and evaluates and binds   *)
(* its pairs one after the other into that scope: the expression of pair k *)
(* is evaluated in the new scope after pairs 1..k-1 are bound, so it reads *)
(* them, and reads the enclosing scope for names not yet bound; the body   *)
(* is evaluated in the scope holding all pairs and its value is the value  *)
(* of the let*.                                                            *)
(***************************************************************************)
RECURSIVE LetPairs(_, _, _, _)
\* i: the let* event; k: the next pair; p: where its evaluation must start;
\* N: the new scope.
LetPairs(i, k, p, N) ==
    LET b == log[i].args[1].l
        r == Match(p)
    IN  IF 2 * k > Len(b)
        THEN /\ IsEval(p) /\ log[p].env = N /\ log[p].ast = log[i].args[2]
             /\ r + 1 = Match(i)
             /\ log[r + 1].ok = log[r].ok
             /\ log[r + 1].val = log[r].val
        ELSE /\ IsEval(p) /\ log[p].env = N /\ log[p].ast = b[2 * k]
             /\ b[2 * k].t = "Symbol" =>
                  LET name == b[2 * k].s
                      sc == ScopesAt(p)
                  IN  IF \E m \in 1..(k - 1) : b[2 * m - 1].s = name
                      THEN /\ log[r].ok
                           /\ log[r].val = sc[N].current_level[name]
                      ELSE LET outer == Resolve(sc, log[i].env, name)
                           IN  /\ log[r].ok <=> outer # <<>>
                               /\ log[r].ok => log[r].val = outer[1]
             /\ IF log[r].ok
                THEN /\ log[r + 1] = [e |-> "set", env |-> N,
                                      key |-> b[2 * k - 1].s, val |-> log[r].val]
                     /\ LetPairs(i, k + 1, r + 2, N)
                ELSE /\ r + 1 = Match(i)
                     /\ ~log[r + 1].ok
                     /\ log[r + 1].val = log[r].val

C5_LetSequential ==
    \A i \in Events :
        (IsSpecial(i, "let_star") /\ ProperLet(log[i].args)) =>
            /\ log[i + 1] = [e |-> "new", id |-> log[i + 1].id,
                             parent |-> <<log[i].env>>]
            /\ log[i + 1].id = Len(ScopesAt(i)) + 1
            /\ LetPairs(i, 1, i + 2, log[i + 1].id)

\* A let* whose second pair reads the name its first pair bound returned the
\* value of that pair, which the enclosing scope does not bind to the name.
C5_Witness ==
    \E i \in Events :
        /\ IsSpecial(i, "let_star") /\ ProperLet(log[i].args)
        /\ Len(log[i].args[1].l) >= 4
        /\ log[i].args[1].l[4] = log[i].args[1].l[1]
        /\ log[i].args[2] = log[i].args[1].l[3]
        /\ log[Match(i)].ok
        /\ log[Match(i)].val = log[Match(i + 2)].val
        /\ Resolve(prev, log[i].env, log[i].args[1].l[1].s)
              # <<log[Match(i)].val>>

(***************************************************************************)
(* C6.  let* bindings do not leak: while a let* form is evaluated in scope *)
(* S, with success or with an error, no binding is made in S, so S holds   *)
(* afterwards what it held before and a name the let* bound is unbound in  *)
(* S unless it was defined outside.                                        *)
(***************************************************************************)
C6_LetNoLeak ==
    \A i \in Events :
        IsSpecial(i, "let_star") =>
            LET S == log[i].env
                span == i..Match(i)
            IN  /\ \A k \in span : IsSet(k) => log[k].env # S
                /\ ScopesAt(Match(i))[S] = ScopesAt(i)[S]
                /\ (/\ S \in DOMAIN prev
                    /\ \A k \in Events \ span : IsSet(k) => log[k].env # S)
                      => scopes[S] = prev[S]

\* A let* evaluated in S bound a name that S does not hold afterwards.
C6_Witness ==
    \E i \in Events : \E k \in Events :
        /\ IsSpecial(i, "let_star")
        /\ i < k /\ k < Match(i)
        /\ IsSet(k) /\ log[k].env = log[i + 1].id
        /\ log[i].args[1].l[1] = Symbol(log[k].key)
        /\ log[k].key \notin DOMAIN scopes[log[i].env].current_level

(***************************************************************************)
(* C7.  When the head of a round list evaluates to a special form, the     *)
(* remaining elements are passed unevaluated together with the current     *)
(* scope; if evaluates its condition and then exactly one of its branches: *)
(* the untaken branch is never evaluated.                                  *)
(***************************************************************************)
C7_SpecialFormUnevaluated ==
    /\ \A i \in Events :
         (IsEval(i) /\ log[i].ast.t = "Round" /\ log[i].ast.l # <<>>) =>
            LET h == Match(i + 1)
            IN  (log[h].ok /\ log[h].val.t = "SpecialForm") =>
                    log[h + 1] = [e |-> "special", f |-> log[h].val.f,
                                  args |-> Tail(log[i].ast.l),
                                  env |-> log[i].env]
    /\ \A i \in Events :
         (IsSpecial(i, "if_special_form") /\ Len(log[i].args) \in {2, 3}) =>
            LET kids == Kids(i)
                c == Match(i + 1)
                taken == IF Truthy(log[c].val) THEN 2 ELSE 3
            IN  /\ IsEval(i + 1)
                /\ log[i + 1].ast = log[i].args[1]
                /\ log[i + 1].env = log[i].env
                /\ IF log[c].ok /\ taken <= Len(log[i].args)
                   THEN /\ kids = <<i + 1, c + 1>>
                        /\ log[c + 1].ast = log[i].args[taken]
                        /\ log[c + 1].env = log[i].env
                        /\ Match(c + 1) + 1 = Match(i)
                        /\ log[Match(i)].ok = log[Match(c + 1)].ok
                        /\ log[Match(i)].val = log[Match(c + 1)].val
                   ELSE /\ kids = <<i + 1>>
                        /\ c + 1 = Match(i)
                        /\ log[c].ok => log[Match(i)].ok /\ log[Match(i)].val = Nil

\* An if with a true condition and a def! as its else branch returned the
\* value of its then branch, and the name of the def! is unbound afterwards.
C7_Witness ==
    \E i \in Events :
        /\ IsSpecial(i, "if_special_form") /\ Len(log[i].args) = 3
        /\ log[Match(i + 1)].ok /\ Truthy(log[Match(i + 1)].val)
        /\ log[i].args[3].t = "Round"
        /\ log[i].args[3].l[1] = Symbol("def!")
        /\ Resolve(scopes, log[i].env, log[i].args[3].l[2].s) = <<>>
        /\ log[Match(i)].ok
        /\ log[Match(i)].val = log[i].args[2]

(***************************************************************************)
(* C8.  When the head of a round list evaluates to a primitive or a        *)
(* closure, the head is evaluated first, then every remaining element      *)
(* left to right in the scope of the call site, and only then is the       *)
(* callable invoked with the values; when the evaluation of an argument    *)
(* fails, no later argument is evaluated and the callable is not invoked.  *)
(***************************************************************************)
RECURSIVE ArgsFrom(_, _, _, _)
\* i: the evaluation of the call; m: the next argument; q: where its
\* evaluation must start; vals: the values of the arguments before it.
ArgsFrom(i, m, q, vals) ==
    LET ast == log[i].ast
        func == log[Match(i + 1)].val
        r == Match(q)
    IN  IF m > Len(ast.l) - 1
        THEN IF func.t = "Builtin"
             THEN /\ log[q] = [e |-> "builtin", f |-> func.f, args |-> vals]
                  /\ q + 1 = Match(i)
             ELSE log[q] = [e |-> "apply", func |-> func, args |-> vals,
                            env |-> log[i].env]
        ELSE /\ IsEval(q)
             /\ log[q].env = log[i].env
             /\ log[q].ast = ast.l[m + 1]
             /\ IF log[r].ok
                THEN ArgsFrom(i, m + 1, r + 1, Append(vals, log[r].val))
                ELSE /\ r + 1 = Match(i)
                     /\ ~log[r + 1].ok
                     /\ log[r + 1].val = log[r].val

IsCall(i) ==
    /\ IsEval(i) /\ log[i].ast.t = "Round" /\ log[i].ast.l # <<>>
    /\ log[Match(i + 1)].ok
    /\ log[Match(i + 1)].val.t \in {"Builtin", "UserDefined"}

C8_ArgumentsLeftToRight ==
    \A i \in Events :
        IsCall(i) =>
            /\ IsEval(i + 1)
            /\ log[i + 1].ast = log[i].ast.l[1]
            /\ log[i + 1].env = log[i].env
            /\ ArgsFrom(i, 1, Match(i + 1) + 1, <<>>)

\* A call with three arguments whose first argument was evaluated and whose
\* second argument failed: the call failed with that error.
C8_Witness ==
    \E i \in Events :
        /\ IsCall(i)
        /\ Len(log[i].ast.l) = 4
        /\ LET a1 == Match(i + 1) + 1
               a2 == Match(a1) + 1
           IN  /\ log[Match(a1)].ok
               /\ ~log[Match(a2)].ok
               /\ Match(i) = Match(a2) + 1
               /\ ~log[Match(i)].ok

(***************************************************************************)
(* C9.  Closure arity: with F fixed parameters and A arguments, a closure  *)
(* without a rest parameter is applied only when A = F and a closure with  *)
(* a rest parameter only when A >= F; otherwise the application fails with *)
(* an arity error and no body expression is evaluated.                     *)
(***************************************************************************)
ArityMessage(func, args) ==
    IF Len(args) < Len(func.params)
    THEN "Expected at least " \o ToString(Len(func.params))
         \o " arguments but got " \o ToString(Len(args))
    ELSE "Expected " \o ToString(Len(func.params))
         \o " arguments but got " \o ToString(Len(args))

C9_ClosureArity ==
    \A i \in Events :
        IsApply(i) =>
            IF ArityFits(log[i].func, log[i].args)
            THEN /\ IsEval(BodyAt(i))
                 /\ log[BodyAt(i)].ast = log[i].func.body[1]
            ELSE /\ \A k \in (i + 1)..Len(log) : ~IsEval(k)
                 /\ IsRet(Match(i))
                 /\ ~log[Match(i)].ok
                 /\ log[Match(i)].val.msg = ArityMessage(log[i].func, log[i].args)
                 /\ ~out.ok
                 /\ out.val.msg = ArityMessage(log[i].func, log[i].args)

\* A closure without a rest parameter was applied to more arguments than it
\* has parameters, and the line failed with the arity error.
C9_Witness ==
    \E i \in Events :
        /\ IsApply(i)
        /\ ~HasRest(log[i].func)
        /\ Len(log[i].args) > Len(log[i].func.params)
        /\ Len(log[i].func.params) > 0
        /\ ~out.ok
        /\ \A k \in (i + 1)..Len(log) : ~IsEval(k)

(***************************************************************************)
(* C10.  Variadic binding: applying a closure with F fixed parameters and  *)
(* a rest parameter to A >= F arguments binds fixed parameter i to         *)
(* argument i and then the rest name to the round list of arguments        *)
(* F+1..A in order, the empty round list when A = F.                       *)
(***************************************************************************)
C10_VariadicBinding ==
    \A i \in Events :
        (/\ IsApply(i) /\ HasRest(log[i].func)
         /\ Len(log[i].args) >= Len(log[i].func.params)) =>
            LET func == log[i].func
                args == log[i].args
                F == Len(func.params)
                N == log[i + 1].id
                rest == Round(SubSeq(args, F + 1, Len(args)))
            IN  /\ IsNew(i + 1)
                /\ \A m \in 1..F :
                     log[i + 1 + m] = [e |-> "set", env |-> N,
                                       key |-> func.params[m], val |-> args[m]]
                /\ log[i + F + 2] = [e |-> "set", env |-> N,
                                     key |-> func.rest_param[1], val |-> rest]
                /\ Len(args) = F => rest = Round(<<>>)
                /\ scopes[N].current_level[func.rest_param[1]] = rest
                /\ \A m \in 1..F :
                     (/\ func.params[m] # func.rest_param[1]
                      /\ \A m2 \in (m + 1)..F : func.params[m2] # func.params[m])
                        => scopes[N].current_level[func.params[m]] = args[m]

\* One line applied a closure with a fixed and a rest parameter to three
\* arguments and to one: the rest name was bound to the list of the last two
\* and to the empty list.
C10_Witness ==
    \E i \in Events : \E j \in Events :
        /\ IsApply(i) /\ IsApply(j)
        /\ HasRest(log[i].func) /\ HasRest(log[j].func)
        /\ Len(log[i].func.params) = 1 /\ Len(log[j].func.params) = 1
        /\ Len(log[i].args) = 3 /\ Len(log[j].args) = 1
        /\ scopes[log[i + 1].id].current_level[log[i].func.rest_param[1]]
              = Round(<<log[i].args[2], log[i].args[3]>>)
        /\ scopes[log[j + 1].id].current_level[log[j].func.rest_param[1]]
              = Round(<<>>)

(***************************************************************************)
(* C11.  def! with exactly two arguments whose first is a symbol evaluates *)
(* the second in the current scope, binds the result to that symbol in the *)
(* current scope only, and returns the bound value, so that evaluating the *)
(* symbol next in the same scope returns that value; when the first        *)
(* argument is not a symbol it fails with a type error and the second      *)
(* argument is not evaluated.                                              *)
(***************************************************************************)
\* No binding of key is made in scope env by the events strictly between a
\* and b.
NoSetBetween(a, b, env, key) ==
    \A k \in (a + 1)..(b - 1) :
        IsSet(k) => ~(log[k].env = env /\ log[k].key = key)

C11_DefBang ==
    \A i \in Events :
        (IsSpecial(i, "def_bang") /\ Len(log[i].args) = 2) =>
            LET env == log[i].env
                key == log[i].args[1]
                r == Match(i + 1)
            IN  IF key.t = "Symbol"
                THEN /\ log[i + 1] = [e |-> "eval", env |-> env,
                                      ast |-> log[i].args[2]]
                     /\ IF log[r].ok
                        THEN /\ log[r + 1] = [e |-> "set", env |-> env,
                                              key |-> key.s, val |-> log[r].val]
                             /\ log[r + 2] = [e |-> "ret", ok |-> TRUE,
                                              val |-> log[r].val]
                             /\ r + 2 = Match(i)
                             /\ \A j \in (r + 3)..Len(log) :
                                  (/\ log[j] = [e |-> "eval", env |-> env,
                                                ast |-> key]
                                   /\ NoSetBetween(r + 1, j, env, key.s)) =>
                                      log[j + 1] = [e |-> "ret", ok |-> TRUE,
                                                    val |-> log[r].val]
                             /\ NoSetBetween(r + 1, Len(log) + 1, env, key.s) =>
                                  /\ key.s \in DOMAIN scopes[env].current_level
                                  /\ scopes[env].current_level[key.s] = log[r].val
                        ELSE /\ r + 1 = Match(i)
                             /\ log[r + 1] = [e |-> "ret", ok |-> FALSE,
                                              val |-> log[r].val]
                ELSE /\ i + 1 = Match(i)
                     /\ ~log[i + 1].ok
                     /\ log[i + 1].val.msg = "def! first argument must be a symbol"

\* A def! inside a let* bound its symbol in the scope of the let*, the symbol
\* evaluated next in that scope returned the value, and the root scope does
\* not hold that value for the symbol.
C11_Witness ==
    \E i \in Events :
        /\ IsSpecial(i, "def_bang") /\ Len(log[i].args) = 2
        /\ log[i].args[1].t = "Symbol"
        /\ log[i].env # 1
        /\ log[Match(i)].ok
        /\ Match(i) + 2 <= Len(log)
        /\ log[Match(i) + 1] = [e |-> "eval", env |-> log[i].env,
                                ast |-> log[i].args[1]]
        /\ log[Match(i) + 2] = [e |-> "ret", ok |-> TRUE,
                                val |-> log[Match(i)].val]
        /\ Resolve(scopes, 1, log[i].args[1].s) # <<log[Match(i)].val>>

(***************************************************************************)
(* C12.  Fail-fast without rollback: the first failure inside a top-level  *)
(* form aborts the whole form, nothing is evaluated after it and the       *)
(* failure is what the driver gets; every binding made before the failure  *)
(* is still in effect afterwards, in the scopes the next form is evaluated *)
(* in.                                                                     *)
(***************************************************************************)
Failed(r) == IsRet(r) /\ ~log[r].ok

\* The last binding of each name of each scope made while the line was
\* evaluated is what the scope holds.
BindingsKept(sc) ==
    \A k \in Events :
        (IsSet(k) /\ NoSetBetween(k, Len(log) + 1, log[k].env, log[k].key)) =>
            /\ log[k].key \in DOMAIN sc[log[k].env].current_level
            /\ sc[log[k].env].current_level[log[k].key] = log[k].val

C12_FailFastNoRollback ==
    /\ [](\A r \in Events :
            Failed(r) =>
                /\ \A k \in (r + 1)..Len(log) :
                     Failed(k) /\ log[k].val = log[r].val
                /\ ~out.ok
                /\ out.val = log[r].val
                /\ BindingsKept(scopes))
    /\ [][(nread' = nread + 1 /\ ~out.ok) =>
             \A key \in DOMAIN scopes[1].current_level :
                 /\ key \in DOMAIN prev'[1].current_level
                 /\ key # "not" =>
                      prev'[1].current_level[key] = scopes[1].current_level[key]
         ]_vars

\* A do block failed after a def! of a name had completed and before a def!
\* of another name: the first name is bound in the root scope, the second is
\* not.
C12_Witness ==
    \E i \in Events : \E k \in Events :
        /\ IsSpecial(i, "do_func") /\ Len(log[i].args) = 3
        /\ log[i].env = 1
        /\ i < k /\ k < Match(i)
        /\ IsSet(k) /\ log[k].env = 1
        /\ Failed(Match(i))
        /\ ~out.ok
        /\ scopes[1].current_level[log[k].key] = log[k].val
        /\ log[i].args[3].t = "Round"
        /\ log[i].args[3].l[1] = Sy("def!")
        /\ Resolve(scopes, 1, log[i].args[3].l[2].s) = <<>>

(***************************************************************************)
(* C13.  if accepts 2 or 3 arguments and otherwise fails with an arity     *)
(* error with nothing evaluated; it evaluates the condition once; every    *)
(* condition value other than Nil and Bool(false) selects arg1, Number 0,  *)
(* the empty string and the empty list included; Nil and Bool(false)       *)
(* select arg2 when present and yield Nil when it is absent.               *)
(***************************************************************************)
\* What if must evaluate after a condition of value v: <<>> or <<branch>>.
Selected(args, v) ==
    IF v = Nil \/ v = Bool(FALSE)
    THEN IF Len(args) = 3 THEN <<args[3]>> ELSE <<>>
    ELSE <<args[2]>>

C13_IfArityTruthiness ==
    \A i \in Events :
        IsSpecial(i, "if_special_form") =>
            IF Len(log[i].args) \notin {2, 3}
            THEN /\ i + 1 = Match(i)
                 /\ ~log[i + 1].ok
                 /\ log[i + 1].val.msg = "if requires two or three arguments"
            ELSE LET c == Match(i + 1)
                     sel == Selected(log[i].args, log[c].val)
                 IN  /\ log[i + 1] = [e |-> "eval", env |-> log[i].env,
                                      ast |-> log[i].args[1]]
                     /\ IF ~log[c].ok
                        THEN /\ Kids(i) = <<i + 1>>
                             /\ log[Match(i)] = log[c]
                        ELSE IF sel = <<>>
                        THEN /\ Kids(i) = <<i + 1>>
                             /\ log[Match(i)] = [e |-> "ret", ok |-> TRUE,
                                                 val |-> Nil]
                        ELSE /\ Kids(i) = <<i + 1, c + 1>>
                             /\ log[c + 1] = [e |-> "eval", env |-> log[i].env,
                                              ast |-> sel[1]]
                             /\ log[Match(i)] = log[Match(c + 1)]

\* One line held (if 0 1 2) (if "" 1 2) (if () 1 2) (if nil 1)
\* (if false 1 2) and returned 1 1 1 nil 2.
C13_Witness ==
    /\ out.ok
    /\ out.vals # <<>>
    /\ out.vals[1].t = "Mal"
    /\ Len(input.forms[1].l) = 6
    /\ \A k \in 1..5 : input.forms[1].l[k].l[1] = Sy("if")
    /\ {input.forms[1].l[k].l[2] : k \in 1..3}
          = {Number(0), String(""), Round(<<>>)}
    /\ input.forms[1].l[4].l[2] = Nil /\ Len(input.forms[1].l[4].l) = 3
    /\ input.forms[1].l[5].l[2] = Bool(FALSE)
    /\ \A k \in 1..5 : k # 4 => input.forms[1].l[k].l[3] # input.forms[1].l[k].l[4]
    /\ \A k \in 1..3 : out.vals[1].l[k] = input.forms[1].l[k].l[3]
    /\ out.vals[1].l[4] = Nil
    /\ out.vals[1].l[5] = input.forms[1].l[5].l[4]

(***************************************************************************)
(* C14.  fn* parameter lists: a round or square list of symbols, possibly  *)
(* empty, yields a closure whose fixed parameters are those symbols in     *)
(* order; a list with the marker & is accepted only when & is followed by  *)
(* exactly one more element, a symbol, which becomes the variadic          *)
(* parameter, the symbols before & being the fixed parameters; a &         *)
(* followed by no or by more than one element, and any parameter that is   *)
(* not a symbol, is rejected with an error and no closure is created.      *)
(***************************************************************************)
AmpAt(pl) == {k \in 1..Len(pl) : pl[k] = Symbol("&")}

\* & is absent, or the first & is the last element but one.
WellFormedParams(pl) ==
    /\ \A k \in 1..Len(pl) : pl[k].t = "Symbol"
    /\ AmpAt(pl) # {} =>
         /\ Len(pl) - 1 \in AmpAt(pl)
         /\ \A k \in AmpAt(pl) : k >= Len(pl) - 1

FixedOf(pl) ==
    LET n == IF AmpAt(pl) = {} THEN Len(pl) ELSE Len(pl) - 2
    IN  [k \in 1..n |-> pl[k].s]

RestOf(pl) == IF AmpAt(pl) = {} THEN <<>> ELSE <<pl[Len(pl)].s>>

C14_FnParams ==
    \A i \in Events :
        (/\ IsSpecial(i, "fn_star") /\ Len(log[i].args) = 2
         /\ log[i].args[1].t \in {"Round", "Square"}) =>
            LET pl == log[i].args[1].l
            IN  /\ i + 1 = Match(i)
                /\ IF WellFormedParams(pl)
                   THEN log[i + 1] =
                          [e |-> "ret", ok |-> TRUE,
                           val |-> [t |-> "UserDefined",
                                    params |-> FixedOf(pl),
                                    rest_param |-> RestOf(pl),
                                    body |-> <<log[i].args[2]>>,
                                    env |-> log[i].env]]
                   ELSE /\ ~log[i + 1].ok
                        /\ log[i + 1].val.t = "Err"
                        /\ ~out.ok

\* A closure came out of a square parameter list with two fixed parameters,
\* the marker and a rest name.
C14_Witness ==
    \E i \in Events :
        /\ IsSpecial(i, "fn_star")
        /\ log[i].args[1].t = "Square"
        /\ Len(log[i].args[1].l) = 4
        /\ AmpAt(log[i].args[1].l) = {3}
        /\ log[i + 1].ok
        /\ log[i + 1].val.t = "UserDefined"
        /\ Len(log[i + 1].val.params) = 2
        /\ log[i + 1].val.rest_param = <<log[i].args[1].l[4].s>>
        /\ out.ok

(***************************************************************************)
(* Equality, stated apart from the code.  Flat(v, flavors) is v with every  *)
(* sequence of one of the flavors rewritten as a round list, at every      *)
(* depth: two values are equal up to those flavors when their rewritings   *)
(* are the same value.                                                     *)
(***************************************************************************)
IsEquals(i) == log[i].e = "builtin" /\ log[i].f = "equals"

RECURSIVE Flat(_, _)
Flat(v, flavors) ==
    IF v.t \in {"Round", "Square", "Curly"}
    THEN [t |-> IF v.t \in flavors THEN "Round" ELSE v.t,
          l |-> [k \in 1..Len(v.l) |-> Flat(v.l[k], flavors)]]
    ELSE v

(***************************************************************************)
(* C15.  = takes exactly 2 arguments of any type and returns a Bool; for   *)
(* two sequences of round or square flavor it returns true if and only if  *)
(* they have the same length and pairwise-equal elements, whichever of the *)
(* two flavors each one has, at every nesting depth.                       *)
(***************************************************************************)
C15_EqualsRoundSquare ==
    \A i \in Events :
        IsEquals(i) =>
            IF Len(log[i].args) # 2
            THEN /\ ~log[i + 1].ok
                 /\ log[i + 1].val.msg = "= requires exactly two argument"
            ELSE LET a == log[i].args[1]
                     b == log[i].args[2]
                 IN  /\ IsRet(i + 1) /\ log[i + 1].ok
                     /\ log[i + 1].val.t = "Bool"
                     /\ (a.t \in {"Round", "Square"} /\ b.t \in {"Round", "Square"}) =>
                          log[i + 1].val
                             = Bool(Flat(a, {"Round", "Square"})
                                       = Flat(b, {"Round", "Square"}))

\* A round list holding a square vector compared equal to a square vector
\* holding a round list, in both orders.
C15_Witness ==
    \E i \in Events : \E j \in Events :
        /\ IsEquals(i) /\ IsEquals(j) /\ i < j
        /\ Len(log[i].args) = 2
        /\ log[i].args[1].t = "Round" /\ log[i].args[2].t = "Square"
        /\ Len(log[i].args[1].l) = 2 /\ Len(log[i].args[2].l) = 2
        /\ log[i].args[1].l[1].t = "Square" /\ log[i].args[2].l[1].t = "Round"
        /\ log[j].args = <<log[i].args[2], log[i].args[1]>>
        /\ log[i + 1].val = Bool(TRUE)
        /\ log[j + 1].val = Bool(TRUE)

(***************************************************************************)
(* C16 as stated.  List equality is flavor-agnostic across all flavors:    *)
(* two sequences with the same elements in the same order compare equal    *)
(* under = whatever their flavors, also when one is curly and the other    *)
(* round or square.                                                        *)
(***************************************************************************)
C16_AllFlavorsEqual ==
    \A i \in Events :
        (/\ IsEquals(i) /\ Len(log[i].args) = 2
         /\ log[i].args[1].t \in {"Round", "Square", "Curly"}
         /\ log[i].args[2].t \in {"Round", "Square", "Curly"}) =>
            log[i + 1].val
               = Bool(Flat(log[i].args[1], {"Round", "Square", "Curly"})
                         = Flat(log[i].args[2], {"Round", "Square", "Curly"}))

(***************************************************************************)
(* C16 amended.  List equality is flavor-agnostic between the round and    *)
(* the square flavor only: under = a curly sequence equals another curly   *)
(* sequence with pairwise-equal elements in the same order, and never      *)
(* equals a round or a square sequence, whatever the elements.             *)
(***************************************************************************)
C16_CurlyEqualsCurlyOnly ==
    \A i \in Events :
        (/\ IsEquals(i) /\ Len(log[i].args) = 2
         /\ log[i].args[1].t \in {"Round", "Square", "Curly"}
         /\ log[i].args[2].t \in {"Round", "Square", "Curly"}
         /\ "Curly" \in {log[i].args[1].t, log[i].args[2].t}) =>
            log[i + 1].val
               = Bool(Flat(log[i].args[1], {"Round", "Square"})
                         = Flat(log[i].args[2], {"Round", "Square"}))

\* A curly sequence compared unequal to the round list of the same elements,
\* in both orders.
C16_Witness ==
    \E i \in Events : \E j \in Events :
        /\ IsEquals(i) /\ IsEquals(j) /\ i < j
        /\ Len(log[i].args) = 2
        /\ {log[i].args[1].t, log[i].args[2].t} = {"Round", "Curly"}
        /\ log[i].args[1].l = log[i].args[2].l
        /\ log[i].args[1].l # <<>>
        /\ log[i + 1].val = Bool(FALSE)
        /\ log[j].args = <<log[i].args[2], log[i].args[1]>>
        /\ log[j + 1].val = Bool(FALSE)

(***************************************************************************)
(* C17.  Each of + - * / fails with an arity error unless it gets exactly  *)
(* 2 arguments, the count being checked before the types; fails with a     *)
(* type error when either of its 2 arguments is not a Number; / with two   *)
(* Numbers fails with a divide-by-zero error exactly when the divisor is    *)
(* 0.  The failures are error values the driver gets, and its loop goes on.*)
(***************************************************************************)
ArithName(f) ==
    CASE f = "add" -> "add"
      [] f = "sub" -> "subtract"
      [] f = "mult" -> "multiply"
      [] f = "divide" -> "divide"

IsArith(i) ==
    log[i].e = "builtin" /\ log[i].f \in {"add", "sub", "mult", "divide"}

\* q is a divided by b, rounded toward zero.
IsQuotient(q, a, b) ==
    LET r == a - q * b
        abs(x) == IF x < 0 THEN -x ELSE x
    IN  abs(r) < abs(b) /\ (r = 0 \/ (r > 0) = (a > 0))

C17_ArithmeticErrors ==
    \A i \in Events :
        IsArith(i) =>
            LET args == log[i].args
                res == log[i + 1]
                fails(msg) == /\ res = [e |-> "ret", ok |-> FALSE,
                                        val |-> [t |-> "Err", msg |-> msg]]
                              /\ ~out.ok
                              /\ out.val = res.val
                              /\ running = "loop"
            IN  IF Len(args) # 2
                THEN fails("Expected exactly two arguments for "
                           \o ArithName(log[i].f) \o " function")
                ELSE IF args[1].t # "Number" \/ args[2].t # "Number"
                THEN fails("Expected number arguments")
                ELSE IF log[i].f = "divide" /\ args[2].n = 0
                THEN fails("Division by 0")
                ELSE /\ IsRet(i + 1) /\ res.ok
                     /\ res.val.t = "Number"
                     /\ CASE log[i].f = "add" -> res.val.n = args[1].n + args[2].n
                          [] log[i].f = "sub" -> res.val.n = args[1].n - args[2].n
                          [] log[i].f = "mult" -> res.val.n = args[1].n * args[2].n
                          [] log[i].f = "divide" ->
                                 IsQuotient(res.val.n, args[1].n, args[2].n)

\* A primitive got three arguments the first two of which are not numbers
\* and failed with the arity error.
C17_Witness ==
    \E i \in Events :
        /\ IsArith(i)
        /\ Len(log[i].args) = 3
        /\ log[i].args[1].t = "String" /\ log[i].args[2].t = "String"
        /\ ~out.ok
        /\ out.val.msg = "Expected exactly two arguments for "
                         \o ArithName(log[i].f) \o " function"
        /\ running = "loop"

(***************************************************************************)
(* C18.  Evaluating a non-empty round list whose head evaluates to a value *)
(* that is not a primitive, a special form or a closure fails with the     *)
(* not-callable error, and none of the remaining elements is evaluated.    *)
(***************************************************************************)
Callable(v) == v.t \in {"Builtin", "SpecialForm", "UserDefined"}

C18_NotCallable ==
    \A i \in Events :
        (IsEval(i) /\ log[i].ast.t = "Round" /\ log[i].ast.l # <<>>) =>
            LET h == Match(i + 1)
            IN  (log[h].ok /\ ~Callable(log[h].val)) =>
                    /\ h + 1 = Match(i)
                    /\ Kids(h) = <<>>
                    /\ log[h + 1] = [e |-> "ret", ok |-> FALSE,
                                     val |-> [t |-> "Err",
                                              msg |-> "First element is not a function"]]

\* (1 (def! a 1)) failed as not callable and a is unbound afterwards.
C18_Witness ==
    \E i \in Events :
        /\ IsEval(i) /\ log[i].ast.t = "Round" /\ Len(log[i].ast.l) = 2
        /\ log[i].ast.l[1].t = "Number"
        /\ log[i].ast.l[2].t = "Round"
        /\ log[i].ast.l[2].l[1] = Sy("def!")
        /\ ~out.ok
        /\ out.val.msg = "First element is not a function"
        /\ Resolve(scopes, 1, log[i].ast.l[2].l[2].s) = <<>>

(***************************************************************************)
(* C19.  Evaluating a square or curly sequence never performs a call:      *)
(* every element is evaluated left to right in the current scope and the   *)
(* result is a sequence of the same flavor and length holding the          *)
(* evaluated elements, also when the first element evaluates to a          *)
(* callable; the first failing element aborts the whole evaluation.        *)
(***************************************************************************)
RECURSIVE ElemsFrom(_, _, _, _)
\* i: the evaluation of the sequence; m: the next element; q: where its
\* evaluation must start; vals: the values of the elements before it.
ElemsFrom(i, m, q, vals) ==
    LET ast == log[i].ast
        r == Match(q)
    IN  IF m > Len(ast.l)
        THEN /\ q = Match(i)
             /\ log[q] = [e |-> "ret", ok |-> TRUE,
                          val |-> [t |-> ast.t, l |-> vals]]
             /\ Len(log[q].val.l) = Len(ast.l)
        ELSE /\ log[q] = [e |-> "eval", env |-> log[i].env, ast |-> ast.l[m]]
             /\ IF log[r].ok
                THEN ElemsFrom(i, m + 1, r + 1, Append(vals, log[r].val))
                ELSE /\ r + 1 = Match(i)
                     /\ log[r + 1] = [e |-> "ret", ok |-> FALSE,
                                      val |-> log[r].val]

C19_SequenceLiteral ==
    \A i \in Events :
        (IsEval(i) /\ log[i].ast.t \in {"Square", "Curly"}) =>
            ElemsFrom(i, 1, i + 1, <<>>)

\* [+ 1 2] evaluated to the vector of the primitive, 1 and 2.
C19_Witness ==
    \E i \in Events :
        /\ IsEval(i) /\ log[i].ast.t = "Square" /\ Len(log[i].ast.l) = 3
        /\ log[Match(i + 1)].ok
        /\ log[Match(i + 1)].val.t = "Builtin"
        /\ log[Match(i)].ok
        /\ log[Match(i)].val.t = "Square"
        /\ Len(log[Match(i)].val.l) = 3
        /\ log[Match(i)].val.l[1] = log[Match(i + 1)].val
        /\ \A k \in Events : log[k].e # "builtin"

(***************************************************************************)
(* C20 as stated.  The end-of-input sentinel never appears as an           *)
(* evaluation result: for every expression the driver hands to the         *)
(* evaluator, a successful evaluation returns a value that is not the      *)
(* sentinel.                                                               *)
(***************************************************************************)
C20_EOINeverResult ==
    out.ok => \A k \in 1..Len(out.vals) : out.vals[k] # EOI

(***************************************************************************)
(* C20 amended.  The sentinel is an evaluation result exactly when the     *)
(* expression evaluated is the sentinel itself: a line without forms is    *)
(* handed to the evaluator as the bare sentinel and evaluates to it; for   *)
(* every other expression the driver hands over, a successful evaluation   *)
(* returns a value that is not the sentinel (for a line with forms, a Mal  *)
(* sequence that ends with it).                                            *)
(***************************************************************************)
C20_EOIOnlyFromEOI ==
    /\ \A i \in Events :
         (IsEval(i) /\ log[Match(i)].ok) =>
            (log[Match(i)].val = EOI <=> log[i].ast = EOI)
    /\ (out.ok /\ nread > 0) =>
         /\ Len(out.vals) = 1
         /\ out.vals[1] = EOI <=> input.forms[1] = EOI
         /\ input.forms[1] # EOI =>
              /\ out.vals[1].t = "Mal"
              /\ out.vals[1].l[Len(out.vals[1].l)] = EOI

\* The line without forms was read and its result is the sentinel.
C20_Witness ==
    /\ nread > 0
    /\ input = [ok |-> TRUE, forms |-> <<EOI>>]
    /\ log = << [e |-> "eval", env |-> 1, ast |-> EOI],
                [e |-> "ret", ok |-> TRUE, val |-> EOI] >>
    /\ out.ok
    /\ out.vals = <<EOI>>


(***************************************************************************)
(* C21.  count fails with the arity error unless it gets exactly 1         *)
(* argument and never fails on the type of that argument: it returns the   *)
(* number of elements of a round or square list, the length of a string,   *)
(* Number 0 for Nil, and Nil for every other value (a number, a boolean,   *)
(* a curly sequence, a callable).                                          *)
(***************************************************************************)
IsCount(i) == log[i].e = "builtin" /\ log[i].f = "count"

SameButNot(before, after) ==
    /\ Len(after) = Len(before)
    /\ \A h \in 1..Len(before) :
         /\ after[h].parent = before[h].parent
         /\ DOMAIN after[h].current_level \ {"not"}
               = DOMAIN before[h].current_level \ {"not"}
         /\ \A key \in DOMAIN before[h].current_level :
              (h # 1 \/ key # "not") =>
                 after[h].current_level[key] = before[h].current_level[key]

LineFailed == nread > 0 /\ ~out.ok

IsClosure(v) == v.t = "UserDefined"

\* Two bodies are structurally equal: the same expressions, the round and
\* the square flavor being one.
SameBody(b1, b2) ==
    /\ Len(b1) = Len(b2)
    /\ \A k \in 1..Len(b1) :
         Flat(b1[k], {"Round", "Square"}) = Flat(b2[k], {"Round", "Square"})

C23_ClosureEquality ==
    \A i \in Events :
        (/\ IsEquals(i) /\ Len(log[i].args) = 2
         /\ IsClosure(log[i].args[1]) /\ IsClosure(log[i].args[2])) =>
            LET f == log[i].args[1]
                g == log[i].args[2]
            IN  log[i + 1] = [e |-> "ret", ok |-> TRUE,
                              val |-> Bool(/\ f.params = g.params
                                           /\ f.rest_param = g.rest_param
                                           /\ SameBody(f.body, g.body))]

\* What = does on two closures: the variadic parameter is not compared.
ClosureEqualityFixedOnly ==
    \A i \in Events :
        (/\ IsEquals(i) /\ Len(log[i].args) = 2
         /\ IsClosure(log[i].args[1]) /\ IsClosure(log[i].args[2])) =>
            LET f == log[i].args[1]
                g == log[i].args[2]
            IN  log[i + 1] = [e |-> "ret", ok |-> TRUE,
                              val |-> Bool(/\ f.params = g.params
                                           /\ SameBody(f.body, g.body))]

\* Two closures made from one fn* text in two invocations compared equal.
ClosureEqualityAcrossScopes ==
    \E i \in Events :
        /\ IsEquals(i) /\ Len(log[i].args) = 2
        /\ IsClosure(log[i].args[1]) /\ IsClosure(log[i].args[2])
        /\ log[i].args[1].env # log[i].args[2].env
        /\ log[i].args[1].env # 1 /\ log[i].args[2].env # 1
        /\ log[i + 1].val = Bool(TRUE)

(***************************************************************************)
(* C24.  String round trip: for every string over an alphabet with the     *)
(* backslash, the double quote, newline, carriage return, tab and ordinary *)
(* characters, unescaping in the reader the escaped form that the          *)
(* readable printer wrote gives back exactly the string.                   *)
(***************************************************************************)
C24_StringRoundTrip ==
    /\ text.pc = "printed" =>
         unescape_string(escape_string(text.s)) = text.s
    /\ text.pc = "read" => text.read = text.s

\* The string of a backslash, the letter n and a newline was written as six
\* characters between quotes and read back as it was.
C24_Witness ==
    /\ text.pc = "read"
    /\ text.s = <<"\\", "n", "\n">>
    /\ text.printed = <<"\"", "\\", "\\", "n", "\\", "n", "\"">>
    /\ text.read = text.s

(***************************************************************************)
(* C25.  Writes never reach a scope other than the innermost one of the    *)
(* frame performing them: a closure invocation gets a new scope whose      *)
(* parent is the captured scope, and until the call returns every binding  *)
(* made, a def! in the body included, goes to that scope or to one created *)
(* later, so that every scope that existed at the call, the captured scope *)
(* and the call-site scope among them, has the bindings it had; a def! in  *)
(* the body binds in the scope of the invocation, and after the call       *)
(* returns the name resolves at the call site to what it resolved before.  *)
(***************************************************************************)
\* The event i applies a closure that passed the first arity test: the
\* next event creates the scope of the invocation.
Invokes(i) == IsApply(i) /\ i < Len(log) /\ IsNew(i + 1)

\* The scope of the invocation that the event i starts
FrameOf(i) == log[i + 1].id

\* The event k is a def! of a name, evaluated in scope h, whose value
\* expression was evaluated without failure.
DefIn(k, h) ==
    /\ IsSpecial(k, "def_bang") /\ log[k].env = h
    /\ Len(log[k].args) = 2 /\ log[k].args[1].t = "Symbol"
    /\ log[Match(k + 1)].ok

C25_WritesStayInFrame ==
    /\ scopes = ScopesAt(Len(log))
    /\ \A i \in Events :
         Invokes(i) =>
            LET n == FrameOf(i)
                c == Match(i)
                before == ScopesAt(i)
                after == ScopesAt(c)
            IN  /\ n = Len(before) + 1
                /\ log[i + 1].parent = <<log[i].func.env>>
                /\ \A k \in (i + 1)..c : IsSet(k) => log[k].env >= n
                /\ \A h \in 1..(n - 1) : after[h] = before[h]
                /\ \A k \in (i + 1)..c :
                     DefIn(k, n) =>
                        LET s == Match(k + 1) + 1
                            key == log[k].args[1].s
                        IN  /\ log[s] = [e |-> "set", env |-> n, key |-> key,
                                         val |-> log[s - 1].val]
                            /\ Resolve(after, log[i].env, key)
                                  = Resolve(before, log[i].env, key)

\* (def! x 9) ((fn* (a) (do (def! x a) (def! a 7) [x a])) 1) x returned
\* 9 [1 7] 9: the closure saw its own x, and the x of the root scope, which
\* is both its captured and its call-site scope, is still 9.
C25_Witness ==
    /\ out.ok
    /\ out.vals = <<Mal(<<Number(9), Square(<<Number(1), Number(7)>>),
                          Number(9), EOI>>)>>
    /\ \E i \in Events :
         /\ Invokes(i)
         /\ log[i].env = 1 /\ log[i].func.env = 1
         /\ \E k \in Events : DefIn(k, FrameOf(i)) /\ log[k].args[1].s = "x"
         /\ Resolve(scopes, FrameOf(i), "x") = <<Number(1)>>
    /\ Resolve(scopes, 1, "x") = <<Number(9)>>

(***************************************************************************)
(* C26.  Every closure invocation gets its own fresh scope: the scope is   *)
(* new and empty, no two invocations have the same one, the parameters are *)
(* bound in it, bindings are made in it only while its invocation runs,    *)
(* and it is on the scope chain of                                         *)
(* no other invocation of the same closure, so that parameter and def!     *)
(* bindings of one invocation are not visible to another, be it earlier,   *)
(* later or nested.  A scope made by an earlier line is still there with   *)
(* the bindings it had, and a closure created inside an invocation reads   *)
(* on every later call the values that invocation bound.                   *)
(***************************************************************************)
\* The scopes on the chain from h outward
OnChain(sc, h) == {Chain(sc, h)[k] : k \in 1..Len(Chain(sc, h))}

\* The invocation j applies a closure that was created in a scope other
\* than the root, which no invocation is running in any more.
CallsInner(j) ==
    /\ Invokes(j)
    /\ log[j].func.env # 1
    /\ \/ log[j].func.env \in DOMAIN prev
       \/ \E i \in 1..(j - 1) :
            Invokes(i) /\ FrameOf(i) = log[j].func.env /\ Match(i) < j

C26_FreshScopePerInvocation ==
    /\ \A m \in 2..Len(prev) : scopes[m] = prev[m]
    /\ \A i \in Events :
         Invokes(i) =>
            LET n == FrameOf(i)
            IN  /\ n \notin DOMAIN ScopesAt(i)
                /\ ScopesAt(i + 1)[n].current_level = <<>>
                /\ \A q \in 1..Len(log[i].func.params) :
                     log[i + 1 + q] = [e |-> "set", env |-> n,
                                       key |-> log[i].func.params[q],
                                       val |-> log[i].args[q]]
                /\ \A k \in Events :
                     (IsSet(k) /\ log[k].env = n) => (i < k /\ k < Match(i))
                /\ \A j \in Events \ {i} :
                     Invokes(j) =>
                        /\ FrameOf(j) # n
                        /\ log[j].func = log[i].func =>
                              n \notin OnChain(scopes, FrameOf(j))
    /\ \A j \in Events : \A name \in {"n", "m", "z", "x"} :
         (/\ CallsInner(j)
          /\ ArityFits(log[j].func, log[j].args)
          /\ FreeSymbolBody(log[j].func, name)) =>
            LET seen == Resolve(scopes, log[j].func.env, name)
                ret == log[BodyAt(j) + 1]
            IN  /\ ret.ok <=> seen # <<>>
                /\ ret.ok => ret.val = seen[1]

\* [(k1) (k2) (k1)] returned [1 2 1]: k1 and k2 are closures of one fn* text
\* made by two invocations on the line before, and each reads the n of its
\* own invocation.
C26_Witness ==
    /\ nread = 2
    /\ out.ok
    /\ out.vals = <<Mal(<<Square(<<Number(1), Number(2), Number(1)>>), EOI>>)>>
    /\ \E i \in Events : \E j \in Events :
         /\ CallsInner(i) /\ CallsInner(j)
         /\ log[i].func.env # log[j].func.env
         /\ log[i].func.body = log[j].func.body
         /\ {log[i].func.env, log[j].func.env} \subseteq DOMAIN prev
         /\ Resolve(scopes, log[i].func.env, "n") = <<Number(1)>>
         /\ Resolve(scopes, log[j].func.env, "n") = <<Number(2)>>

(***************************************************************************)
(* C27.  A failing def! changes nothing: def! fails for an argument count  *)
(* other than 2, for a first argument that is not a symbol, and when the   *)
(* evaluation of the value expression of (def! n e) fails.  In the first   *)
(* two cases nothing is evaluated and nothing is bound; in the third the   *)
(* only bindings made are those e made before it failed, so n has in the   *)
(* current scope the binding it had when e failed, which is the one it had *)
(* before the def! unless e itself bound n there: unbound stays unbound,   *)
(* bound keeps its value.                                                  *)
(***************************************************************************)
\* What scope h itself binds name to: <<>> or <<value>>.
Binding(sc, h, name) ==
    IF name \in DOMAIN sc[h].current_level
    THEN <<sc[h].current_level[name]>>
    ELSE <<>>

DefFails(i) == IsSpecial(i, "def_bang") /\ ~log[Match(i)].ok

C27_FailingDefBang ==
    \A i \in Events :
        DefFails(i) =>
            LET env == log[i].env
                args == log[i].args
                c == Match(i)
                fails(msg) == /\ c = i + 1
                              /\ log[c].val = [t |-> "Err", msg |-> msg]
                              /\ ScopesAt(c) = ScopesAt(i)
            IN  /\ IF Len(args) # 2
                   THEN fails("def! requires exactly two arguments")
                   ELSE IF args[1].t # "Symbol"
                   THEN fails("def! first argument must be a symbol")
                   ELSE LET r == Match(i + 1)
                            n == args[1].s
                        IN  /\ ~log[r].ok
                            /\ c = r + 1
                            /\ log[c].val = log[r].val
                            /\ Binding(ScopesAt(c), env, n)
                                  = Binding(ScopesAt(r), env, n)
                            /\ NoSetBetween(i, r, env, n) =>
                                  Binding(ScopesAt(c), env, n)
                                     = Binding(ScopesAt(i), env, n)
                /\ \A k \in c..Len(log) : ~IsSet(k)
                /\ scopes = ScopesAt(c)

\* (def! z zz) failed on a line read after (def! z 5) z, and z is still 5
\* in the root scope.
C27_Witness ==
    /\ nread = 2
    /\ ~out.ok
    /\ \E i \in Events :
         /\ DefFails(i)
         /\ log[i].env = 1
         /\ log[i].args = <<Sy("z"), Sy("zz")>>
    /\ Binding(prev, 1, "z") = <<Number(5)>>
    /\ Binding(scopes, 1, "z") = <<Number(5)>>

(***************************************************************************)
(* C28.  Special forms and primitives are ordinary bindings of the root    *)
(* scope, dispatched by the value the head evaluates to and not by the     *)
(* name of the head: a head that is a symbol evaluates to whatever the     *)
(* scope chain binds it to; a special form value gets the remaining        *)
(* elements unevaluated, a primitive or a closure gets them evaluated, and *)
(* any other value makes the list fail as not callable.  So a list headed  *)
(* by if, def! or + fails as not callable where def!, let* or a parameter  *)
(* rebound that name to a non-callable value, and a special form bound to  *)
(* another name still gets its arguments unevaluated.                      *)
(***************************************************************************)
SpecialNames == {"def!", "let*", "do", "fn*", "if"}

PrimitiveNames ==
    {"+", "-", "*", "/", "list", "list?", "empty?", "count", "=", "prn",
     "pr-str", "str", "println", "<", "<=", ">", ">="}

NotCallableError ==
    [e |-> "ret", ok |-> FALSE,
     val |-> [t |-> "Err", msg |-> "First element is not a function"]]

C28_DispatchByValue ==
    /\ nread = 0 =>
         /\ scopes[1].parent = <<>>
         /\ DOMAIN scopes[1].current_level \ {"not"}
               = SpecialNames \cup PrimitiveNames
         /\ \A name \in SpecialNames :
              scopes[1].current_level[name].t = "SpecialForm"
         /\ \A name \in PrimitiveNames :
              scopes[1].current_level[name].t = "Builtin"
    /\ \A i \in Events :
         (IsEval(i) /\ log[i].ast.t = "Round" /\ log[i].ast.l # <<>>) =>
            LET head == log[i].ast.l[1]
                h == Match(i + 1)
                v == log[h].val
                bound == Resolve(ScopesAt(i), log[i].env, head.s)
            IN  /\ head.t = "Symbol" =>
                     /\ log[h].ok <=> bound # <<>>
                     /\ log[h].ok => v = bound[1]
                /\ log[h].ok =>
                     CASE v.t = "SpecialForm" ->
                              log[h + 1] = [e |-> "special", f |-> v.f,
                                            args |-> Tail(log[i].ast.l),
                                            env |-> log[i].env]
                       [] v.t \in {"Builtin", "UserDefined"} ->
                              ArgsFrom(i, 1, h + 1, <<>>)
                       [] OTHER ->
                              h + 1 = Match(i) /\ log[h + 1] = NotCallableError

\* On the line (def! my-if if) (def! if 5) (my-if false zz 2) (if true 1 2)
\* the if form ran under the name my-if, returned 2 and left zz alone, and
\* the list headed by if failed as not callable.
C28_Witness ==
    /\ ~out.ok
    /\ out.val.msg = "First element is not a function"
    /\ Binding(scopes, 1, "if") = <<Number(5)>>
    /\ \E i \in Events :
         /\ IsEval(i) /\ log[i].ast.t = "Round" /\ log[i].ast.l # <<>>
         /\ log[i].ast.l[1] = Sy("my-if")
         /\ log[Match(i + 1) + 1] = [e |-> "special", f |-> "if_special_form",
                                     args |-> <<Bool(FALSE), Sy("zz"), Number(2)>>,
                                     env |-> 1]
         /\ log[Match(i)] = [e |-> "ret", ok |-> TRUE, val |-> Number(2)]
         /\ \A k \in Events : IsEval(k) => log[k].ast # Sy("zz")
    /\ \E i \in Events :
         /\ IsEval(i) /\ log[i].ast.t = "Round" /\ log[i].ast.l # <<>>
         /\ log[i].ast.l[1] = Sy("if")
         /\ log[Match(i)] = NotCallableError

(***************************************************************************)
(* C29 as stated.  At the moment the evaluation of any input line starts,  *)
(* the name not is bound in the root scope to the closure                  *)
(* (fn* (a) (if a false true)): the driver evaluates the defining form in  *)
(* the root scope on every iteration before the line, so a redefinition of *)
(* not by def! in the root scope on one line is overwritten before the     *)
(* next line is evaluated.                                                 *)
(***************************************************************************)
\* The closure of (fn* (a) (if a false true)) made in the root scope
NotClosure ==
    [t |-> "UserDefined", params |-> <<"a">>, rest_param |-> <<>>,
     body |-> <<Round(<<Sy("if"), Sy("a"), Bool(FALSE), Bool(TRUE)>>)>>,
     env |-> 1]

C29_NotBoundAtLineStart ==
    nread > 0 => Binding(prev, 1, "not") = <<NotClosure>>

(***************************************************************************)
(* C29 amended.  The driver evaluates the defining form of not in the root *)
(* scope on every iteration before the line, and the form is evaluated     *)
(* like any other: at the moment the evaluation of an input line starts,   *)
(* not is bound in the root scope to the closure                           *)
(* (fn* (a) (if a false true)) provided def! and fn* are bound in the root *)
(* scope to their special forms at that moment, so that a redefinition of  *)
(* not by def! on one line is overwritten before the next line is          *)
(* evaluated; when an earlier line has rebound def! or fn* in the root     *)
(* scope to a value that is not callable, the defining form fails, the     *)
(* failure is dropped, and not has the binding the earlier line left.      *)
(***************************************************************************)
\* In the heap sc the root scope binds def! and fn* to their special forms.
Definable(sc) ==
    /\ Binding(sc, 1, "def!") = <<[t |-> "SpecialForm", f |-> "def_bang"]>>
    /\ Binding(sc, 1, "fn*") = <<[t |-> "SpecialForm", f |-> "fn_star"]>>

\* In the heap sc the root scope binds def! or fn* to a value that cannot be
\* called.
Undefinable(sc) ==
    \E name \in {"def!", "fn*"} :
        /\ Binding(sc, 1, name) # <<>>
        /\ ~Callable(Binding(sc, 1, name)[1])

C29_NotBoundWhileDefinable ==
    [][(nread' = nread + 1) =>
          /\ Definable(scopes) => Binding(prev', 1, "not") = <<NotClosure>>
          /\ Undefinable(scopes) => prev' = scopes
      ]_vars

\* The line before bound not to 5 in the root scope, and when (not false)
\* was evaluated not was the closure again: the line returned true.
C29_Witness ==
    /\ nread = 2
    /\ Binding(prev, 1, "mark") = <<Number(1)>>
    /\ Definable(prev)
    /\ Binding(prev, 1, "not") = <<NotClosure>>
    /\ input = Read(<<Call(<<Sy("not"), Bool(FALSE)>>)>>)
    /\ out.ok
    /\ out.vals = <<Mal(<<Bool(TRUE), EOI>>)>>

(***************************************************************************)
(* C30.  In every reachable state the scope graph is a forest rooted at    *)
(* the root scope: the root has no parent, every other scope has one       *)
(* parent, which was created before it, and the parent of a scope never    *)
(* changes, so that every parent chain is acyclic, ends at the root, and a *)
(* lookup visits at most as many scopes as the chain is long.              *)
(***************************************************************************)
\* In the heap sc every scope but the root has a parent created before it.
Forest(sc) ==
    /\ Len(sc) >= 1
    /\ sc[1].parent = <<>>
    /\ \A h \in 2..Len(sc) :
         /\ Len(sc[h].parent) = 1
         /\ sc[h].parent[1] \in 1..(h - 1)

\* The number of scopes get(key) visits from scope h (env.rs:93-105)
RECURSIVE Visits(_, _, _)
Visits(sc, h, key) ==
    IF key \in DOMAIN sc[h].current_level \/ sc[h].parent = <<>>
    THEN 1
    ELSE 1 + Visits(sc, sc[h].parent[1], key)

Depth(sc, h) == Len(Chain(sc, h))

LookupNames == {"x", "n", "m", "z", "a", "zz", "if", "not"}

C30_ScopeForest ==
    /\ [](/\ Forest(prev)
          /\ Forest(scopes)
          /\ \A i \in Events :
               IsNew(i) =>
                  /\ log[i].id = Len(ScopesAt(i - 1)) + 1
                  /\ Len(log[i].parent) = 1
                  /\ log[i].parent[1] \in 1..(log[i].id - 1)
          /\ \A h \in 1..Len(scopes) :
               /\ Chain(scopes, h)[Depth(scopes, h)] = 1
               /\ Depth(scopes, h) <= h
               /\ \A k \in 1..(Depth(scopes, h) - 1) :
                    Chain(scopes, h)[k + 1] < Chain(scopes, h)[k]
               /\ \A key \in LookupNames :
                    Visits(scopes, h, key) <= Depth(scopes, h))
    /\ [][/\ Len(scopes') >= Len(scopes)
          /\ \A h \in 1..Len(scopes) : scopes'[h].parent = scopes[h].parent
         ]_vars

\* A scope three deep: an invocation of a closure made inside another
\* invocation; looking up zz from it visits the three scopes of its chain
\* and finds nothing.
C30_Witness ==
    \E h \in 1..Len(scopes) :
        /\ Depth(scopes, h) = 3
        /\ Chain(scopes, h)[3] = 1
        /\ Visits(scopes, h, "zz") = 3
        /\ Resolve(scopes, h, "zz") = <<>>
        /\ \E i \in Events : Invokes(i) /\ FrameOf(i) = h
=============================================================================
